---- MODULE Spec2Model ----
(***************************************************************************)
(* Model of the SRI electronic-invoicing core: the access-key generator    *)
(* (ClaveAccesoService), the reception/authorization client                *)
(* (SRIConnectorService), the invoice pipeline (InvoiceProcessorService)   *)
(* and the SignedInfo assembly of the XAdES signers.                       *)
(*                                                                         *)
(* Text is modelled as a sequence of one-character strings, so that        *)
(* padding, parsing and formatting are computed as the code computes them. *)
(***************************************************************************)
EXTENDS Integers, Sequences, FiniteSets, TLC

VARIABLES
    \* ClaveAccesoService
    params,       \* the ClaveAccesoParams handed to generate()
    genResult,    \* outcome of generate(): none / ok(key) / error(errors)
    mutada,       \* a key obtained from the generated one by changing one digit
    parsed,       \* one call of parse: the key given and what it returned
    modulo,       \* one call of calcularModulo11: the text given and the digit
    \* SRIConnectorService
    config,       \* this.config: maxRetries
    stack,        \* call stack of the connector, innermost frame first
    elapsed,      \* Date.now() - tiempoInicio of the running ConEspera call
    espera,       \* arguments and locals of autorizacionComprobanteConEspera
    attempt,      \* loop variable of the running retry loop
    delays,       \* backoff sleeps of the running retry loop: attempt and ms, in order
    remoteLog,    \* remote calls made so far: <<service, outcome>>
    sleepLog,     \* sleeps made so far: <<who, ms>>
    outcome,      \* how the outermost connector call ended
    \* InvoiceProcessorService
    proc,         \* position and locals of processInvoice / NotaCredito / Retencion
    \* signers
    sign,         \* state of one signXML run
    c14n,         \* one use of SRIC14N: the documents given and the texts returned
    cert          \* one use of the certificate material

claveVars == <<params, genResult, mutada, parsed, modulo>>
connVars  == <<config, stack, elapsed, espera, attempt, delays, remoteLog, sleepLog, outcome>>
procVars  == <<proc>>
signVars  == <<sign, c14n, cert>>
vars      == <<params, genResult, mutada, parsed, modulo, config, stack, elapsed, espera, attempt,
               delays, remoteLog, sleepLog, outcome, proc, sign, c14n, cert>>

(***************************************************************************)
(* Text helpers                                                            *)
(***************************************************************************)
DigitChars == <<"0", "1", "2", "3", "4", "5", "6", "7", "8", "9">>

IsDigit(c) == \E i \in 1..10 : DigitChars[i] = c

\* value of one decimal digit character, as parseInt(clave[i]) gives it
DigitVal(c) == (CHOOSE i \in 1..10 : DigitChars[i] = c) - 1

AllDigits(s) == \A i \in 1..Len(s) : IsDigit(s[i])

\* Number.prototype.toString() of a non-negative integer
RECURSIVE NatToStr(_)
NatToStr(n) ==
    IF n < 10 THEN <<DigitChars[n + 1]>>
    ELSE NatToStr(n \div 10) \o <<DigitChars[(n % 10) + 1]>>

\* String.prototype.padStart(n, c)
PadStart(s, n, c) ==
    IF Len(s) >= n THEN s ELSE [i \in 1..(n - Len(s)) |-> c] \o s

\* String.prototype.substring(from, to), 0-based, end exclusive
Substring(s, from, to) == SubSeq(s, from + 1, to)

NaN == -1

\* value of the leading run of digits of s; NaN when s does not start with a digit
RECURSIVE ParseIntFrom(_, _, _)
ParseIntFrom(s, i, acc) ==
    IF i > Len(s) \/ ~IsDigit(s[i]) THEN acc
    ELSE ParseIntFrom(s, i + 1, acc * 10 + DigitVal(s[i]))

ParseInt(s) ==
    IF Len(s) = 0 \/ ~IsDigit(s[1]) THEN NaN ELSE ParseIntFrom(s, 1, 0)

(***************************************************************************)
(* ClaveAccesoService                                                      *)
(***************************************************************************)
RandomSteps == 3

CodigoMin == 10000000
CodigoMax == 99999999

\* a Date object: valid with its local day, month (1-12) and year, or invalid
Fecha(d, m, y) == [valid |-> TRUE, dia |-> d, mes |-> m, anio |-> y]
FechaInvalida == [valid |-> FALSE, dia |-> 0, mes |-> 0, anio |-> 0]

RucOk      == <<"1","7","9","2","1","4","6","7","3","9","0","0","1">>
RucCorto   == <<"1","7","9","2","1","4","6","7","3","9","0","0">>

ParamSet ==
    [ fechaEmision    : {Fecha(15, 1, 2024), Fecha(31, 12, 2025), Fecha(1, 1, 999),
                         FechaInvalida},
      tipoComprobante : {<<"0","1">>, <<"0","2">>},
      ruc             : {RucOk, RucCorto},
      ambiente        : {1, 2, 3},
      establecimiento : {<<"0","0","1">>, <<"1","2">>},
      puntoEmision    : {<<"0","0","1">>, <<"0","0","x">>},
      secuencial      : {<<"0","0","0","0","0","0","0","0","1">>, <<"1">>,
                         <<"1","2","3","4","5","6","7","8","9">>, <<"0">>,
                         <<"1","2","x">>},
      tipoEmision     : {1, 3} ]

\* formatFecha: ddmmyyyy of a valid Date; <<>> stands for the throw on an invalid one
formatFecha(fecha) ==
    IF ~fecha.valid THEN <<>>
    ELSE PadStart(NatToStr(fecha.dia), 2, "0")
         \o PadStart(NatToStr(fecha.mes), 2, "0")
         \o NatToStr(fecha.anio)

\* generateCodigoNumerico, with Math.random() = k / RandomSteps
generateCodigoNumerico(k) ==
    NatToStr((k * (CodigoMax - CodigoMin + 1)) \div RandomSteps + CodigoMin)

\* the six weights read from the right end of the text
multiplicadoresDesdeLaDerecha == [i \in 1..48 |-> <<2, 3, 4, 5, 6, 7>>[((i - 1) % 6) + 1]]

multiplicadores == [i \in 1..48 |-> <<7, 6, 5, 4, 3, 2>>[((i - 1) % 6) + 1]]

RECURSIVE SumaPonderada(_, _)
SumaPonderada(clave, i) ==
    IF i = 0 THEN 0
    ELSE SumaPonderada(clave, i - 1) + DigitVal(clave[i]) * multiplicadores[i]

residuoModulo11(clave) == SumaPonderada(clave, 48) % 11

\* 11 - residuo, with the two special cases: the check digit as a number
digitoDeResiduoOmiteDiez(residuo) ==
    LET dv == 11 - residuo IN IF dv = 11 THEN 0 ELSE dv

digitoDeResiduo(residuo) ==
    LET dv == 11 - residuo
    IN  IF dv = 11 THEN 0 ELSE IF dv = 10 THEN 1 ELSE dv

\* calcularModulo11 of a 48-digit text (the callers modelled here pass 48 digits)
calcularModulo11(clave) == NatToStr(digitoDeResiduo(residuoModulo11(clave)))

\* validateParams: the violated fields, in the order the code pushes them
validateParams(p) ==
    LET amb == NatToStr(p.ambiente)
        emi == NatToStr(p.tipoEmision)
        secuencialNum == ParseInt(p.secuencial)
        chk(bad, name) == IF bad THEN <<name>> ELSE <<>>
    IN  chk(~(Len(p.ruc) = 13 /\ AllDigits(p.ruc)
              /\ Substring(p.ruc, 10, 13) = <<"0","0","1">>), "ruc")
        \o chk(~(Len(amb) = 1 /\ amb[1] \in {"1", "2"}), "ambiente")
        \o chk(~(Len(emi) = 1 /\ emi[1] \in {"1", "2"}), "tipoEmision")
        \o chk(~(Len(p.establecimiento) = 3 /\ AllDigits(p.establecimiento)),
               "establecimiento")
        \o chk(~(Len(p.puntoEmision) = 3 /\ AllDigits(p.puntoEmision)), "puntoEmision")
        \o chk(secuencialNum = NaN \/ secuencialNum <= 0 \/ secuencialNum > 999999999,
               "secuencial")
        \o chk(p.tipoComprobante \notin {<<"0","1">>, <<"0","3">>, <<"0","4">>,
                                        <<"0","5">>, <<"0","6">>, <<"0","7">>},
               "tipoComprobante")

GenOk(key)     == [status |-> "ok", key |-> key, errors |-> <<>>]
GenError(errs) == [status |-> "error", key |-> <<>>, errors |-> errs]
GenNone        == [status |-> "none", key |-> <<>>, errors |-> <<>>]

\* generate(params) with the random draw k: the key, or the error it throws
generate(p, k) ==
    LET errors == validateParams(p)
        claveSinDigito ==
            formatFecha(p.fechaEmision)
            \o PadStart(p.tipoComprobante, 2, "0")
            \o PadStart(p.ruc, 13, "0")
            \o NatToStr(p.ambiente)
            \o PadStart(p.establecimiento, 3, "0")
            \o PadStart(p.puntoEmision, 3, "0")
            \o PadStart(p.secuencial, 9, "0")
            \o generateCodigoNumerico(k)
            \o NatToStr(p.tipoEmision)
    IN  IF errors # <<>> THEN GenError(errors)
        ELSE IF ~p.fechaEmision.valid THEN GenError(<<"fecha">>)
        ELSE IF Len(claveSinDigito) # 48 THEN GenError(<<"longitud">>)
        ELSE IF ~AllDigits(claveSinDigito) THEN GenError(<<"digitos">>)
        ELSE LET claveAcceso == claveSinDigito \o calcularModulo11(claveSinDigito)
             IN  IF ~(Len(claveAcceso) = 49 /\ AllDigits(claveAcceso))
                 THEN GenError(<<"patron">>)
                 ELSE GenOk(claveAcceso)

\* validate reading the digit before the check digit
validateDesplazado(claveAcceso) ==
    /\ Len(claveAcceso) = 49
    /\ AllDigits(claveAcceso)
    /\ Substring(claveAcceso, 47, 48) = calcularModulo11(Substring(claveAcceso, 0, 48))

\* validate(claveAcceso)
validate(claveAcceso) ==
    /\ Len(claveAcceso) = 49
    /\ AllDigits(claveAcceso)
    /\ Substring(claveAcceso, 48, 49) = calcularModulo11(Substring(claveAcceso, 0, 48))

\* new Date(año, mes, dia) for the day, month and year read from ddmmyyyy: a
\* year below 100 counts from 1900; day and month are those of a calendar date
\* whenever the text was written by formatFecha
parseFecha(fechaStr) ==
    LET dia == ParseInt(Substring(fechaStr, 0, 2))
        mes == ParseInt(Substring(fechaStr, 2, 4)) - 1
        anio == ParseInt(Substring(fechaStr, 4, 8))
    IN  Fecha(dia, mes + 1, IF anio < 100 THEN 1900 + anio ELSE anio)

ParseOk(campos) == [status |-> "ok", campos |-> campos]
ParseError      == [status |-> "error", campos |-> <<>>]

\* parse reading every field one place to the left from the RUC on
parseDesplazado(claveAcceso) ==
    IF ~validate(claveAcceso) THEN ParseError
    ELSE ParseOk([ fechaEmision      |-> parseFecha(Substring(claveAcceso, 0, 8)),
                   tipoComprobante   |-> Substring(claveAcceso, 8, 10),
                   ruc               |-> Substring(claveAcceso, 9, 22),
                   ambiente          |-> ParseInt(Substring(claveAcceso, 22, 23)),
                   establecimiento   |-> Substring(claveAcceso, 23, 26),
                   puntoEmision      |-> Substring(claveAcceso, 26, 29),
                   secuencial        |-> Substring(claveAcceso, 29, 38),
                   codigoNumerico    |-> Substring(claveAcceso, 38, 46),
                   tipoEmision       |-> ParseInt(Substring(claveAcceso, 46, 47)),
                   digitoVerificador |-> Substring(claveAcceso, 47, 48) ])

\* parse(claveAcceso): the fields, or the error it throws
parse(claveAcceso) ==
    IF ~validate(claveAcceso) THEN ParseError
    ELSE ParseOk([ fechaEmision      |-> parseFecha(Substring(claveAcceso, 0, 8)),
                   tipoComprobante   |-> Substring(claveAcceso, 8, 10),
                   ruc               |-> Substring(claveAcceso, 10, 23),
                   ambiente          |-> ParseInt(Substring(claveAcceso, 23, 24)),
                   establecimiento   |-> Substring(claveAcceso, 24, 27),
                   puntoEmision      |-> Substring(claveAcceso, 27, 30),
                   secuencial        |-> Substring(claveAcceso, 30, 39),
                   codigoNumerico    |-> Substring(claveAcceso, 39, 47),
                   tipoEmision       |-> ParseInt(Substring(claveAcceso, 47, 48)),
                   digitoVerificador |-> Substring(claveAcceso, 48, 49) ])

NoParsed == [clave |-> <<>>, result |-> [status |-> "none", campos |-> <<>>]]
NoModulo == [clave |-> <<>>, digito |-> <<>>]

ClaveIdle == /\ params = CHOOSE p \in ParamSet : TRUE
             /\ genResult = GenNone
             /\ mutada = <<>>
             /\ parsed = NoParsed
             /\ modulo = NoModulo

\* one call of generate(params)
Generate ==
    /\ genResult.status = "none"
    /\ \E k \in 0..(RandomSteps - 1) : genResult' = generate(params, k)
    /\ UNCHANGED <<params, mutada, parsed, modulo>>
    /\ UNCHANGED <<connVars, procVars, signVars>>

\* a transcription error: one of the first 48 digits of the generated key replaced
MutarDigito ==
    /\ genResult.status = "ok"
    /\ mutada = <<>>
    /\ \E pos \in 1..48, d \in 1..10 :
          /\ DigitChars[d] # genResult.key[pos]
          /\ mutada' = [genResult.key EXCEPT ![pos] = DigitChars[d]]
    /\ UNCHANGED <<params, genResult, parsed, modulo>>
    /\ UNCHANGED <<connVars, procVars, signVars>>

\* one call of parse on the generated key or on the changed one
Parse ==
    /\ parsed = NoParsed
    /\ \E clave \in {genResult.key, mutada} \ {<<>>} :
          parsed' = [clave |-> clave, result |-> parse(clave)]
    /\ UNCHANGED <<params, genResult, mutada, modulo>>
    /\ UNCHANGED <<connVars, procVars, signVars>>

\* one call of calcularModulo11 on the 48-digit text given
CalcularModulo11 ==
    /\ modulo.clave # <<>>
    /\ modulo.digito = <<>>
    /\ modulo' = [modulo EXCEPT !.digito = calcularModulo11(modulo.clave)]
    /\ UNCHANGED <<params, genResult, mutada, parsed>>
    /\ UNCHANGED <<connVars, procVars, signVars>>

(***************************************************************************)
(* SRIConnectorService                                                     *)
(*                                                                         *)
(* A running call is a frame of `stack` (innermost first).  A frame that   *)
(* returns or throws is popped and leaves its value in `outcome`, where    *)
(* the caller's next step picks it up.                                     *)
(***************************************************************************)
MaxRetriesCfg == 8

baseDelay == 1000
maxDelay  == 30000

\* Math.random() * 1000, in whole milliseconds
JitterSet == {0, 999}

\* how long one remote round trip may take, in milliseconds
CallDurations == {1000}

Frame(fn, pc) == [fn |-> fn, pc |-> pc]
Top == stack[1]
Running(fn) == stack # <<>> /\ Top.fn = fn
InEspera == \E i \in 1..Len(stack) : stack[i].fn = "espera"

\* errors a remote call can fail with: words of the lower-cased message,
\* error.response.status (0: no response) and error.code (<<>>: none)
Err(name, words, status, code) ==
    [name |-> name, words |-> words, status |-> status, code |-> code]
NoError == Err("none", {}, 0, <<>>)

\* errors of the remote call itself: three retryable, three not
RemoteErrors ==
    { Err("timeout", {"timeout", "of", "30000ms", "exceeded"}, 0,
          <<"E","C","O","N","N","A","B","O","R","T","E","D">>),
      Err("http503", {"request", "failed", "with", "status", "code", "503"}, 503, <<>>),
      Err("sri70", {"clave", "de", "acceso", "en", "procesamiento"}, 0, <<"7","0">>),
      Err("soapFault", {"soap", "fault"}, 0, <<>>),
      Err("http404", {"request", "failed", "with", "status", "code", "404"}, 404, <<>>),
      Err("sri43", {"clave", "acceso", "registrada"}, 0, <<"4","3">>) }
ErrProceso  == Err("procesarRespuesta",
                   {"error", "al", "procesar", "respuesta", "del", "sri"}, 0, <<>>)
ErrConectar == Err("conectar", {"no", "se", "pudo", "conectar"}, 0, <<>>)
ErrFallo    == Err("fallo", {"fallo", "intentos"}, 0, <<>>)
ErrTimeoutEspera == Err("timeoutEspera", {"timeout", "esperando", "autorizacion"}, 0, <<>>)

\* isRetryableError without the test of the SRI codes
isRetryableErrorSinCodigos(error) ==
    \/ error.words \cap {"timeout", "econnrefused", "enotfound", "econnreset",
                         "socket hang up", "network"} # {}
    \/ error.status \in {500, 502, 503, 504}

\* isRetryableError(error)
isRetryableError(error) ==
    \/ error.words \cap {"timeout", "econnrefused", "enotfound", "econnreset",
                         "socket hang up", "network"} # {}
    \/ error.status \in {500, 502, 503, 504}
    \/ /\ error.code # <<>>
       /\ ParseInt(error.code) \in {26, 50, 65, 70}

RECURSIVE Pow2(_)
Pow2(n) == IF n = 0 THEN 1 ELSE 2 * Pow2(n - 1)

Min(a, b) == IF a < b THEN a ELSE b

\* getRetryDelay without the exponential growth
getRetryDelayFijo(at, jitter) ==
    Min(baseDelay, maxDelay) + jitter

\* getRetryDelay(attempt), with the jitter drawn
getRetryDelay(at, jitter) ==
    Min(baseDelay * Pow2(at - 1), maxDelay) + jitter

\* a raw authorization record of the SOAP result: null, or with its estado
\* ("" when the field is missing) and numeroAutorizacion
RawAut(estado, numero) == [nulo |-> FALSE, estado |-> estado, numeroAutorizacion |-> numero]
RawNulo == [nulo |-> TRUE, estado |-> "", numeroAutorizacion |-> ""]

RawAutorizaciones ==
    { <<>>,
      <<RawNulo>>,
      <<RawAut("AUTORIZADO", "1501202401")>>,
      <<RawAut("AUTORIZADO", "")>>,
      <<RawAut("NO AUTORIZADO", "")>>,
      <<RawAut("RECHAZADO", "")>>,
      <<RawAut("EN PROCESAMIENTO", "")>>,
      <<RawAut("EN PROCESO", "")>>,
      <<RawAut("", "")>>,
      <<RawAut("EN PROCESAMIENTO", ""), RawAut("AUTORIZADO", "1501202401")>> }

RECURSIVE processAutorizaciones(_)
processAutorizaciones(raw) ==
    IF raw = <<>> THEN <<>>
    ELSE LET auth == Head(raw)
         IN  (IF auth.nulo THEN <<>>
              ELSE << [estado |-> IF auth.estado = "" THEN "NO AUTORIZADO" ELSE auth.estado,
                       numeroAutorizacion |-> auth.numeroAutorizacion] >>)
             \o processAutorizaciones(Tail(raw))

\* processAutorizacionResponse(result): the AutorizacionResponse
processAutorizacionResponse(raw) == [autorizaciones |-> processAutorizaciones(raw)]

\* estado values the reception service can send ("" when the field is missing)
RawEstados == {"RECIBIDA", "DEVUELTA", "", "EN PROCESO"}

\* processValidarResponse(result): the ValidarComprobanteResponse
processValidarResponse(rawEstado) ==
    [estado |-> IF rawEstado = "" THEN "DEVUELTA" ELSE rawEstado]

NoOutcome == [kind |-> "none", from |-> "none", estado |-> "",
              autorizaciones |-> <<>>, error |-> NoError]
Returned(fn, estado, auts) ==
    [kind |-> "return", from |-> fn, estado |-> estado, autorizaciones |-> auts,
     error |-> NoError]
Thrown(fn, error) ==
    [kind |-> "throw", from |-> fn, estado |-> "", autorizaciones |-> <<>>,
     error |-> error]

NoRemote == [recepcion |-> 0, autorizacion |-> 0, last |-> "none", invocation |-> 0]
NoSleep  == [who |-> "none", afterCall |-> 0]
NoEspera == [maxEspera |-> 0, intervalo |-> 0, polls |-> 0, sleeps |-> 0]

ConnIdle ==
    /\ config = [maxRetries |-> 3, recepcionClient |-> FALSE, autorizacionClient |-> FALSE]
    /\ stack = <<>>
    /\ elapsed = 0
    /\ espera = NoEspera
    /\ attempt = 0
    /\ delays = <<>>
    /\ remoteLog = NoRemote
    /\ sleepLog = NoSleep
    /\ outcome = NoOutcome

\* the top frame ends: it is popped and its value handed to the caller
Finish(value) ==
    /\ stack' = Tail(stack)
    /\ outcome' = value

\* the retry loop testing attempt <= maxRetries before the increment
NextAttemptUnoMas ==
    IF attempt <= config.maxRetries
    THEN /\ attempt' = attempt + 1
         /\ stack' = <<Frame(Top.fn, "call")>> \o Tail(stack)
         /\ UNCHANGED outcome
    ELSE /\ attempt' = attempt + 1
         /\ Finish(Thrown(Top.fn, ErrFallo))

\* the next iteration of the retry loop, or the throw that follows the loop
NextAttempt ==
    IF attempt + 1 <= config.maxRetries
    THEN /\ attempt' = attempt + 1
         /\ stack' = <<Frame(Top.fn, "call")>> \o Tail(stack)
         /\ UNCHANGED outcome
    ELSE /\ attempt' = attempt + 1
         /\ Finish(Thrown(Top.fn, ErrFallo))

\* initializeClients at the head of validarComprobante / autorizacionComprobante,
\* then the first test of the retry loop
InitializeClients ==
    /\ stack # <<>>
    /\ Top.fn \in {"validar", "autorizacion"}
    /\ Top.pc = "init"
    /\ \E creado \in {"ambos", "ninguno", "soloRecepcion"} :
          \* nothing is created, and nothing can fail, once both clients exist
          /\ (config.recepcionClient /\ config.autorizacionClient) => creado = "ambos"
          /\ (config.recepcionClient /\ creado # "ambos") => creado = "soloRecepcion"
          /\ config' = [config EXCEPT
                          !.recepcionClient = @ \/ creado # "ninguno",
                          !.autorizacionClient = @ \/ creado = "ambos"]
          /\ IF creado # "ambos"
             THEN /\ Finish(Thrown(Top.fn, ErrConectar))
                  /\ UNCHANGED <<attempt, delays>>
             ELSE /\ delays' = <<>>
                  /\ attempt' = 1
                  /\ IF 1 <= config.maxRetries
                     THEN /\ stack' = <<Frame(Top.fn, "call")>> \o Tail(stack)
                          /\ UNCHANGED outcome
                     ELSE Finish(Thrown(Top.fn, ErrFallo))
    /\ remoteLog' = [remoteLog EXCEPT !.invocation = 0, !.last = "none"]
    /\ sleepLog' = NoSleep
    /\ UNCHANGED <<elapsed, espera>>
    /\ UNCHANGED <<claveVars, procVars, signVars>>

\* the catch block of both retry loops
CatchRetry(error) ==
    IF isRetryableError(error)
    THEN IF attempt < config.maxRetries
         THEN /\ stack' = <<Frame(Top.fn, "sleep")>> \o Tail(stack)
              /\ UNCHANGED <<attempt, outcome>>
         ELSE NextAttempt
    ELSE /\ Finish(Thrown(Top.fn, error))
         /\ UNCHANGED attempt

Tick(ms) == elapsed' = IF InEspera THEN elapsed + ms ELSE elapsed

\* validarComprobante returning on RECIBIDA only
retornaSoloRecibida(estado) == estado = "RECIBIDA"

\* validarComprobante returning whatever the service answered
retornaCualquiera(estado) == TRUE

\* the two tests of validarComprobante that return the answer to the caller
retornaRespuesta(estado) == estado = "RECIBIDA" \/ estado = "DEVUELTA"

\* one iteration of the loop of validarComprobante: the reception call and
\* what the code does with its answer or its error
RecepcionCallCon(errores) ==
    /\ Running("validar")
    /\ Top.pc = "call"
    /\ \E dur \in CallDurations : Tick(dur)
    /\ \/ \E raw \in RawEstados :
             LET respuesta == processValidarResponse(raw)
             IN  /\ remoteLog' = [remoteLog EXCEPT !.recepcion = @ + 1,
                                                   !.invocation = @ + 1,
                                                   !.last = respuesta.estado]
                 /\ IF retornaRespuesta(respuesta.estado)
                    THEN /\ Finish(Returned("validar", respuesta.estado, <<>>))
                         /\ UNCHANGED attempt
                    ELSE NextAttempt
       \/ \E error \in errores :
             /\ remoteLog' = [remoteLog EXCEPT !.recepcion = @ + 1,
                                               !.invocation = @ + 1,
                                               !.last = error.name]
             /\ CatchRetry(error)
    /\ UNCHANGED <<config, espera, delays, sleepLog>>
    /\ UNCHANGED <<claveVars, procVars, signVars>>

RecepcionCall == RecepcionCallCon(RemoteErrors \cup {ErrProceso})

\* one iteration of the loop of autorizacionComprobante
AutorizacionCall ==
    /\ Running("autorizacion")
    /\ Top.pc = "call"
    /\ \E dur \in CallDurations : Tick(dur)
    /\ \/ \E raw \in RawAutorizaciones :
             LET respuesta == processAutorizacionResponse(raw)
             IN  /\ remoteLog' = [remoteLog EXCEPT !.autorizacion = @ + 1,
                                                   !.invocation = @ + 1,
                                                   !.last = "respuesta"]
                 /\ Finish(Returned("autorizacion", "", respuesta.autorizaciones))
                 /\ UNCHANGED attempt
       \/ \E error \in RemoteErrors \cup {ErrProceso} :
             /\ remoteLog' = [remoteLog EXCEPT !.autorizacion = @ + 1,
                                               !.invocation = @ + 1,
                                               !.last = error.name]
             /\ CatchRetry(error)
    /\ UNCHANGED <<config, espera, delays, sleepLog>>
    /\ UNCHANGED <<claveVars, procVars, signVars>>

\* await this.sleep(getRetryDelay(attempt)); continue
RetrySleep ==
    /\ stack # <<>>
    /\ Top.fn \in {"validar", "autorizacion"}
    /\ Top.pc = "sleep"
    /\ \E jitter \in JitterSet :
          LET delay == getRetryDelay(attempt, jitter)
          IN  /\ delays' = Append(delays, [attempt |-> attempt, ms |-> delay])
              /\ Tick(delay)
    /\ sleepLog' = [who |-> Top.fn, afterCall |-> remoteLog.invocation]
    /\ attempt' = attempt + 1
    /\ stack' = <<Frame(Top.fn, "call")>> \o Tail(stack)
    /\ UNCHANGED <<config, espera, remoteLog, outcome>>
    /\ UNCHANGED <<claveVars, procVars, signVars>>

EstadosDefinitivos == {"AUTORIZADO", "NO AUTORIZADO", "RECHAZADO"}

\* the test for a record still in process, never true
enProcesamientoNunca(estado) == FALSE

\* autorizacion.estado === 'EN PROCESAMIENTO'
enProcesamiento(estado) == estado = "EN PROCESAMIENTO"

\* the catch block rethrowing at once
quedaTiempoNunca(transcurrido, intervalo, maxEspera) == FALSE

\* Date.now() - tiempoInicio + intervalo < maxEspera
quedaTiempo(transcurrido, intervalo, maxEspera) == transcurrido + intervalo < maxEspera

\* respuesta.autorizaciones && respuesta.autorizaciones.length > 0
hayAutorizaciones(auts) == Len(auts) > 0

\* the test for an answer without records, never true
sinAutorizacionesNunca(auts) == FALSE

\* !respuesta.autorizaciones || respuesta.autorizaciones.length === 0
sinAutorizaciones(auts) == Len(auts) = 0

\* the while test of autorizacionComprobanteConEspera: the next call of
\* autorizacionComprobante, or the timeout error once maxEspera has elapsed
EsperaCheck ==
    /\ Running("espera")
    /\ Top.pc = "check"
    /\ IF elapsed < espera.maxEspera
       THEN /\ stack' = <<Frame("autorizacion", "init"), Frame("espera", "await")>>
                        \o Tail(stack)
            /\ espera' = [espera EXCEPT !.polls = @ + 1]
            /\ outcome' = NoOutcome
       ELSE /\ Finish(Thrown("espera", ErrTimeoutEspera))
            /\ UNCHANGED espera
    /\ UNCHANGED <<config, elapsed, attempt, delays, remoteLog, sleepLog>>
    /\ UNCHANGED <<claveVars, procVars, signVars>>

\* what the loop body does with the answer, or the error, of autorizacionComprobante
EsperaHandle ==
    /\ Running("espera")
    /\ Top.pc = "await"
    /\ outcome.from = "autorizacion"
    /\ LET auts == outcome.autorizaciones
           dormir == /\ stack' = <<Frame("espera", "sleep")>> \o Tail(stack)
                     /\ UNCHANGED outcome
       IN  IF outcome.kind = "return"
           THEN IF hayAutorizaciones(auts) /\ auts[1].estado \in EstadosDefinitivos
                THEN Finish(Returned("espera", "", auts))
                ELSE IF hayAutorizaciones(auts) /\ enProcesamiento(auts[1].estado)
                THEN dormir
                ELSE IF sinAutorizaciones(auts)
                THEN dormir
                ELSE Finish(Returned("espera", "", auts))
           ELSE IF quedaTiempo(elapsed, espera.intervalo, espera.maxEspera)
                THEN dormir
                ELSE Finish(Thrown("espera", outcome.error))
    /\ UNCHANGED <<config, elapsed, espera, attempt, delays, remoteLog, sleepLog>>
    /\ UNCHANGED <<claveVars, procVars, signVars>>

\* await this.sleep(intervalo); continue
EsperaSleep ==
    /\ Running("espera")
    /\ Top.pc = "sleep"
    /\ Tick(espera.intervalo)
    /\ espera' = [espera EXCEPT !.sleeps = @ + 1]
    /\ stack' = <<Frame("espera", "check")>> \o Tail(stack)
    /\ UNCHANGED <<config, attempt, delays, remoteLog, sleepLog, outcome>>
    /\ UNCHANGED <<claveVars, procVars, signVars>>

(***************************************************************************)
(* InvoiceProcessorService: processInvoice, processNotaCredito and         *)
(* processRetencion.  The running request is the bottom frame of `stack`.  *)
(***************************************************************************)
esperaInicial == 2000
maxEsperaProceso == 60000
intervaloProceso == 5000

TipoDeProceso == [invoice |-> <<"0","1">>, notaCredito |-> <<"0","4">>,
                  retencion |-> <<"0","7">>]

NoResult == [success |-> FALSE, claveAcceso |-> <<>>, estado |-> "",
             numeroAutorizacion |-> "", xmlFirmado |-> <<>>]

NoProc == [tipo |-> "none", faseError |-> "none", claveAcceso |-> <<>>,
           xmlFirmado |-> <<>>, respuestaRecepcion |-> "",
           respuestaAutorizacion |-> <<>>, result |-> NoResult]

ProcIdle == proc = NoProc

\* the statement after a phase of the try block: the next phase even when the
\* phase has thrown
pasoSiguienteIgnoraFallo(fase, ok) ==
    IF fase = "build" THEN "sign" ELSE "enviar"

\* the statement after a phase of the try block: the next phase, or the catch
\* block when the phase has thrown
pasoSiguiente(fase, ok) ==
    IF ~ok THEN "catch"
    ELSE IF fase = "build" THEN "sign" ELSE "enviar"

\* the request ends with `result`
ProcReturn(result, faseError) ==
    /\ proc' = [proc EXCEPT !.result = result, !.faseError = faseError,
                            !.respuestaRecepcion =
                                IF outcome.from = "validar" /\ outcome.kind = "return"
                                THEN outcome.estado ELSE @,
                            !.respuestaAutorizacion =
                                IF outcome.from = "espera" /\ outcome.kind = "return"
                                THEN outcome.autorizaciones ELSE @]
    /\ Finish(Returned("process", result.estado, <<>>))

\* the catch block: the ERROR result with whatever claveAcceso the data holds
ResultError(claveAcceso) ==
    [success |-> FALSE, claveAcceso |-> claveAcceso, estado |-> "ERROR",
     numeroAutorizacion |-> "", xmlFirmado |-> <<>>]

\* 1. xmlBuilder.buildFactura / buildNotaCredito / buildComprobanteRetencion:
\* the access key is generated and stored in the data, then the XML is built
ProcBuild ==
    /\ Running("process")
    /\ Top.pc = "build"
    /\ \E k \in 0..(RandomSteps - 1), restoOk \in BOOLEAN :
          LET gen   == generate([params EXCEPT !.tipoComprobante = TipoDeProceso[proc.tipo]],
                                k)
              ok    == gen.status = "ok" /\ restoOk
              sigue == pasoSiguiente("build", ok)
          IN  /\ genResult' = gen
              /\ IF sigue = "catch"
                 THEN ProcReturn(ResultError(gen.key), "build")
                 ELSE /\ proc' = [proc EXCEPT !.claveAcceso = gen.key,
                                              !.faseError = IF ok THEN "none" ELSE "build"]
                      /\ stack' = <<Frame("process", sigue)>>
                      /\ UNCHANGED outcome
    /\ UNCHANGED <<params, mutada, parsed, modulo, config, elapsed, espera, attempt, delays,
                   remoteLog, sleepLog>>
    /\ UNCHANGED signVars

\* 4. sriConnector.validarComprobante(xmlFirmado) is called
ProcEnviar ==
    /\ Running("process")
    /\ Top.pc = "enviar"
    /\ stack' = <<Frame("validar", "init"), Frame("process", "recepcion")>>
    /\ outcome' = NoOutcome
    /\ UNCHANGED <<config, elapsed, espera, attempt, delays, remoteLog, sleepLog>>
    /\ UNCHANGED <<claveVars, procVars, signVars>>

\* the answer of validarComprobante: DEVUELTA ends the request; otherwise
\* 5. sleep 2 seconds and call autorizacionComprobanteConEspera
ProcRecepcion ==
    /\ Running("process")
    /\ Top.pc = "recepcion"
    /\ outcome.from = "validar"
    /\ IF outcome.kind = "throw"
       THEN /\ ProcReturn(ResultError(proc.claveAcceso), proc.faseError)
            /\ UNCHANGED <<elapsed, espera>>
       ELSE IF outcome.estado = "DEVUELTA"
       THEN /\ ProcReturn([success |-> FALSE, claveAcceso |-> proc.claveAcceso,
                           estado |-> "DEVUELTA", numeroAutorizacion |-> "",
                           xmlFirmado |-> proc.xmlFirmado], proc.faseError)
            /\ UNCHANGED <<elapsed, espera>>
       ELSE /\ stack' = <<Frame("espera", "check"), Frame("process", "autorizacion")>>
            /\ espera' = [maxEspera |-> maxEsperaProceso, intervalo |-> intervaloProceso,
                          polls |-> 0, sleeps |-> 0]
            /\ elapsed' = 0
            /\ outcome' = NoOutcome
            /\ proc' = [proc EXCEPT !.respuestaRecepcion = outcome.estado]
    /\ sleepLog' = IF outcome.kind = "return" /\ outcome.estado # "DEVUELTA"
                   THEN [who |-> "process", afterCall |-> esperaInicial]
                   ELSE sleepLog
    /\ UNCHANGED <<config, attempt, delays, remoteLog>>
    /\ UNCHANGED <<claveVars, signVars>>

\* success for every record in a final state
exitoSiDefinitivo(estado) == estado \in EstadosDefinitivos

\* success: autorizacion.estado === 'AUTORIZADO'
exito(estado) == estado = "AUTORIZADO"

\* 6-7. the answer of autorizacionComprobanteConEspera becomes the result.
\* processInvoice tests for an empty list; the other two read autorizaciones[0]
\* at once, which throws on an empty list
ProcAutorizacion ==
    /\ Running("process")
    /\ Top.pc = "autorizacion"
    /\ outcome.from = "espera"
    /\ LET auts == outcome.autorizaciones
       IN  IF outcome.kind = "throw"
           THEN ProcReturn(ResultError(proc.claveAcceso), proc.faseError)
           ELSE IF Len(auts) = 0
           THEN IF proc.tipo = "invoice"
                THEN ProcReturn([success |-> FALSE, claveAcceso |-> proc.claveAcceso,
                                 estado |-> "SIN_AUTORIZACION", numeroAutorizacion |-> "",
                                 xmlFirmado |-> proc.xmlFirmado], proc.faseError)
                ELSE ProcReturn(ResultError(proc.claveAcceso), proc.faseError)
           ELSE ProcReturn([success |-> exito(auts[1].estado),
                            claveAcceso |-> proc.claveAcceso,
                            estado |-> auts[1].estado,
                            numeroAutorizacion |-> auts[1].numeroAutorizacion,
                            xmlFirmado |-> proc.xmlFirmado], proc.faseError)
    /\ UNCHANGED <<config, elapsed, espera, attempt, delays, remoteLog, sleepLog>>
    /\ UNCHANGED <<claveVars, signVars>>

(***************************************************************************)
(* The signers: XAdESSignatureService (DOM calls) and SRIXmlSigner (a      *)
(* template).  An element is its tag, its attributes in the order they are *)
(* set, its child elements and its text; attribute values and texts are    *)
(* sequences of text pieces.                                               *)
(***************************************************************************)
Elem(tag, attrs, kids, text) == [tag |-> tag, attrs |-> attrs, kids |-> kids, text |-> text]

CANONICALIZATION_METHOD   == <<"http://www.w3.org/TR/2001/REC-xml-c14n-20010315">>
SIGNATURE_METHOD_RSA_SHA1 == <<"http://www.w3.org/2000/09/xmldsig#rsa-sha1">>
SIGNATURE_METHOD_RSA_SHA256 == <<"http://www.w3.org/2001/04/xmldsig-more#rsa-sha256">>
DIGEST_METHOD_SHA1        == <<"http://www.w3.org/2000/09/xmldsig#sha1">>
ENVELOPED_SIGNATURE       == <<"http://www.w3.org/2000/09/xmldsig#enveloped-signature">>
TYPE_SIGNED_PROPERTIES    == <<"http://uri.etsi.org/01903#SignedProperties">>

\* the value of attribute `name` of element e; <<>> when it is not set
Attr(e, name) ==
    IF \E i \in 1..Len(e.attrs) : e.attrs[i][1] = name
    THEN e.attrs[CHOOSE i \in 1..Len(e.attrs) : e.attrs[i][1] = name][2]
    ELSE <<>>

KidsTagged(e, tag) == SelectSeq(e.kids, LAMBDA k : k.tag = tag)

\* createReference appending ds:Transforms whether or not it has content
createReferenceTransformsSiempre(id, uri, digestValue, isEnveloped, type) ==
    LET transformKids ==
            IF isEnveloped
            THEN <<Elem("ds:Transform", << <<"Algorithm", ENVELOPED_SIGNATURE>> >>, <<>>, <<>>)>>
            ELSE IF type = TYPE_SIGNED_PROPERTIES
            THEN <<Elem("ds:Transform", << <<"Algorithm", CANONICALIZATION_METHOD>> >>, <<>>, <<>>)>>
            ELSE <<>>
    IN  Elem("ds:Reference",
             << <<"Id", id>>, <<"URI", uri>> >>
                \o (IF type # <<>> THEN << <<"Type", type>> >> ELSE <<>>),
             <<Elem("ds:Transforms", <<>>, transformKids, <<>>)>>
                \o << Elem("ds:DigestMethod", << <<"Algorithm", DIGEST_METHOD_SHA1>> >>,
                           <<>>, <<>>),
                      Elem("ds:DigestValue", <<>>, <<>>, digestValue) >>,
             <<>>)

\* XAdESSignatureService.createReference(doc, id, uri, digestValue, isEnveloped, type?)
\* (type <<>>: not given)
createReference(id, uri, digestValue, isEnveloped, type) ==
    LET transformKids ==
            IF isEnveloped
            THEN <<Elem("ds:Transform", << <<"Algorithm", ENVELOPED_SIGNATURE>> >>, <<>>, <<>>)>>
            ELSE IF type = TYPE_SIGNED_PROPERTIES
            THEN <<Elem("ds:Transform", << <<"Algorithm", CANONICALIZATION_METHOD>> >>, <<>>, <<>>)>>
            ELSE <<>>
        needsTransforms == isEnveloped \/ type = TYPE_SIGNED_PROPERTIES
    IN  Elem("ds:Reference",
             << <<"Id", id>>, <<"URI", uri>> >>
                \o (IF type # <<>> THEN << <<"Type", type>> >> ELSE <<>>),
             (IF needsTransforms
              THEN <<Elem("ds:Transforms", <<>>, transformKids, <<>>)>>
              ELSE <<>>)
                \o << Elem("ds:DigestMethod", << <<"Algorithm", DIGEST_METHOD_SHA1>> >>,
                           <<>>, <<>>),
                      Elem("ds:DigestValue", <<>>, <<>>, digestValue) >>,
             <<>>)

\* createSignedInfo appending the document reference first
createSignedInfoDocumentoPrimero(referenceId, signedPropsId, signedPropsDigest, keyInfoId, keyInfoDigest, documentDigest, algorithm, uuid) ==
    Elem("ds:SignedInfo", <<>>,
         << Elem("ds:CanonicalizationMethod",
                 << <<"Algorithm", CANONICALIZATION_METHOD>> >>, <<>>, <<>>),
            Elem("ds:SignatureMethod",
                 << <<"Algorithm", IF algorithm = "SHA256" THEN SIGNATURE_METHOD_RSA_SHA256
                                   ELSE SIGNATURE_METHOD_RSA_SHA1>> >>, <<>>, <<>>),
            createReference(referenceId, <<>>, documentDigest, TRUE, <<>>),
            createReference(referenceId \o <<"-SignedProperties">>, <<"#">> \o signedPropsId,
                            signedPropsDigest, FALSE, TYPE_SIGNED_PROPERTIES),
            createReference(<<"Certificate-", uuid>>, <<"#">> \o keyInfoId, keyInfoDigest,
                            FALSE, <<>>) >>,
         <<>>)

\* XAdESSignatureService.createSignedInfo; documentDigest is what
\* calculateEnvelopedDigest(xmlContent) gives and uuid what generateUUID() draws
createSignedInfo(referenceId, signedPropsId, signedPropsDigest, keyInfoId, keyInfoDigest, documentDigest, algorithm, uuid) ==
    Elem("ds:SignedInfo", <<>>,
         << Elem("ds:CanonicalizationMethod",
                 << <<"Algorithm", CANONICALIZATION_METHOD>> >>, <<>>, <<>>),
            Elem("ds:SignatureMethod",
                 << <<"Algorithm", IF algorithm = "SHA256" THEN SIGNATURE_METHOD_RSA_SHA256
                                   ELSE SIGNATURE_METHOD_RSA_SHA1>> >>, <<>>, <<>>),
            createReference(referenceId \o <<"-SignedProperties">>, <<"#">> \o signedPropsId,
                            signedPropsDigest, FALSE, TYPE_SIGNED_PROPERTIES),
            createReference(<<"Certificate-", uuid>>, <<"#">> \o keyInfoId, keyInfoDigest,
                            FALSE, <<>>),
            createReference(referenceId, <<>>, documentDigest, TRUE, <<>>) >>,
         <<>>)

\* SRIXmlSigner.createSignedInfo: the element tree its template denotes
createSignedInfoSRI(signedInfoId, signedPropertiesRefId, signedPropsId, signedPropsDigest, keyInfoId, keyInfoDigest, referenceId, documentDigest) ==
    Elem("ds:SignedInfo", << <<"Id", signedInfoId>> >>,
         << Elem("ds:CanonicalizationMethod",
                 << <<"Algorithm", CANONICALIZATION_METHOD>> >>, <<>>, <<>>),
            Elem("ds:SignatureMethod",
                 << <<"Algorithm", SIGNATURE_METHOD_RSA_SHA1>> >>, <<>>, <<>>),
            Elem("ds:Reference",
                 << <<"Id", signedPropertiesRefId>>, <<"Type", TYPE_SIGNED_PROPERTIES>>,
                    <<"URI", <<"#">> \o signedPropsId>> >>,
                 << Elem("ds:Transforms", <<>>,
                         <<Elem("ds:Transform",
                                << <<"Algorithm", CANONICALIZATION_METHOD>> >>, <<>>, <<>>)>>,
                         <<>>),
                    Elem("ds:DigestMethod", << <<"Algorithm", DIGEST_METHOD_SHA1>> >>,
                         <<>>, <<>>),
                    Elem("ds:DigestValue", <<>>, <<>>, signedPropsDigest) >>,
                 <<>>),
            Elem("ds:Reference",
                 << <<"URI", <<"#">> \o keyInfoId>> >>,
                 << Elem("ds:DigestMethod", << <<"Algorithm", DIGEST_METHOD_SHA1>> >>,
                         <<>>, <<>>),
                    Elem("ds:DigestValue", <<>>, <<>>, keyInfoDigest) >>,
                 <<>>),
            Elem("ds:Reference",
                 << <<"Id", referenceId>>, <<"URI", <<"#comprobante">> >> >>,
                 << Elem("ds:Transforms", <<>>,
                         <<Elem("ds:Transform",
                                << <<"Algorithm", ENVELOPED_SIGNATURE>> >>, <<>>, <<>>)>>,
                         <<>>),
                    Elem("ds:DigestMethod", << <<"Algorithm", DIGEST_METHOD_SHA1>> >>,
                         <<>>, <<>>),
                    Elem("ds:DigestValue", <<>>, <<>>, documentDigest) >>,
                 <<>>) >>,
         <<>>)

\* a text node
Text(chars) == Elem("#text", <<>>, <<>>, chars)

Whitespace == {" ", "\n", "\t", "\r"}

\* A serialized document is a sequence of tokens: the XML declaration, start
\* tags, end tags and the characters of the text between them.
Tok(t, tag, attrs, c) == [t |-> t, tag |-> tag, attrs |-> attrs, c |-> c]
Chr(c) == Tok("chr", "", <<>>, c)
XmlDecl == Tok("decl", "?xml", <<>>, "")

RECURSIVE serializeNodes(_)
\* XMLSerializer.serializeToString of one node
serializeToString(node) ==
    IF node.tag = "#text"
    THEN [i \in 1..Len(node.text) |-> Chr(node.text[i])]
    ELSE <<Tok("start", node.tag, node.attrs, "")>>
            \o [i \in 1..Len(node.text) |-> Chr(node.text[i])]
            \o serializeNodes(node.kids)
            \o <<Tok("end", node.tag, <<>>, "")>>

serializeNodes(nodes) ==
    IF nodes = <<>> THEN <<>>
    ELSE serializeToString(Head(nodes)) \o serializeNodes(Tail(nodes))

\* the document as the serializer writes it, after its declaration if it has one
serializeDocument(declaracion, root) ==
    (IF declaracion THEN <<XmlDecl>> ELSE <<>>) \o serializeToString(root)

RECURSIVE SubSeqAt(_, _)
\* the elements of s at the indices in K, in order
SubSeqAt(s, K) ==
    IF K = {} THEN <<>>
    ELSE LET m == CHOOSE i \in K : \A j \in K : i <= j
         IN  <<s[m]>> \o SubSeqAt(s, K \ {m})

\* XAdESSignatureService.formatXML: the declaration is put first when missing,
\* then />\s+</g becomes "><" and /\n\s*\n/g becomes "\n"
formatXML(xml) ==
    LET x == IF xml # <<>> /\ xml[1].t = "decl" THEN xml ELSE <<XmlDecl, Chr("\n")>> \o xml
        n == Len(x)
        ws(i) == x[i].t = "chr" /\ x[i].c \in Whitespace
        ini(i) == CHOOSE j \in 1..i : (\A k \in j..i : ws(k)) /\ (j = 1 \/ ~ws(j - 1))
        fin(i) == CHOOSE j \in i..n : (\A k \in i..j : ws(k)) /\ (j = n \/ ~ws(j + 1))
        entreTags(i) == /\ ini(i) > 1 /\ fin(i) < n
                        /\ x[ini(i) - 1].t # "chr" /\ x[fin(i) + 1].t # "chr"
        saltos(i) == {k \in ini(i)..fin(i) : x[k].c = "\n"}
        primero(i) == CHOOSE k \in saltos(i) : \A m \in saltos(i) : k <= m
        ultimo(i) == CHOOSE k \in saltos(i) : \A m \in saltos(i) : k >= m
        enLineasVacias(i) == saltos(i) # {} /\ primero(i) < i /\ i <= ultimo(i)
    IN  SubSeqAt(x, {i \in 1..n : ~ws(i) \/ (~entreTags(i) /\ ~enLineasVacias(i))})

\* values Math.random() / generateUUID() can give an identifier suffix
MaxIds == 2
IdSuffixes == {<<"id", NatToStr(i)>> : i \in 1..MaxIds}
\* the draws for signatureId, keyInfoId and the certificate reference's id are
\* held at one value; those for signedPropsId and referenceId range over
\* IdSuffixes
IdSuffixFijo == {<<"id", "1">>}

\* the SHA-1 digest of a named part of the signature, as an opaque text
Digest(part, id) == <<"sha1(", part>> \o id \o <<")">>

NoElem == Elem("", <<>>, <<>>, <<>>)
NoRefArgs == [id |-> <<>>, uri |-> <<>>, digestValue |-> <<>>, isEnveloped |-> FALSE,
              type |-> <<>>]
NoSign == [signer |-> "none", pc |-> "idle", algorithm |-> "", xmlContent |-> NoElem,
           declaracion |-> FALSE, reloj |-> <<>>, signatureId |-> <<>>,
           signedPropsId |-> <<>>, keyInfoId |-> <<>>, referenceId |-> <<>>,
           signedInfo |-> NoElem, output |-> <<>>, anterior |-> <<>>,
           anteriorIds |-> <<>>,
           refArgs |-> NoRefArgs, reference |-> NoElem]

NoC14n == [pc |-> "idle"]
NoCert == [pc |-> "idle"]

SignIdle == sign = NoSign /\ c14n = NoC14n /\ cert = NoCert

\* argument combinations createReference is tried on
RefArgSet ==
    [ id : {<<"Reference-", "id1">>},
      uri : {<<>>, <<"#", "Certificate", "id1">>, <<"#comprobante">>},
      digestValue : {<<"sha1(", "a", ")">>, <<"sha1(", "b", ")">>},
      isEnveloped : BOOLEAN,
      type : {<<>>, TYPE_SIGNED_PROPERTIES, <<"http://www.w3.org/2000/09/xmldsig#Object">>} ]

\* unsigned documents: a root element whose children are elements and text
\* nodes, no two text nodes side by side (the parser gives one node per run)
MaxKids == 2
DocNodes == { Elem("infoTributaria", <<>>, <<>>, <<"t">>),
              Elem("campoAdicional", <<>>, <<>>, <<" ">>),
              Text(<<"\n", " ">>),
              Text(<<"t", "\n", " ", "\n", "t">>) }
DocKids == { k \in UNION {[1..n -> DocNodes] : n \in 0..MaxKids} :
               \A i \in 1..(Len(k) - 1) : ~(k[i].tag = "#text" /\ k[i + 1].tag = "#text") }
DocSet == { Elem("factura", << <<"id", <<"comprobante">> >> >>, k, <<>>) : k \in DocKids }

\* Date.now(), as the digits keyInfoId takes from it
Relojes == {<<"1000001">>}

InitSign ==
    \/ \E signer \in {"XAdESSignatureService", "SRIXmlSigner"},
          algorithm \in {"SHA1", "SHA256"}, doc \in DocSet, declaracion \in BOOLEAN,
          reloj \in Relojes :
          /\ signer = "SRIXmlSigner" => algorithm = "SHA1"
          /\ sign = [NoSign EXCEPT !.signer = signer, !.pc = "ids", !.algorithm = algorithm,
                                   !.xmlContent = doc, !.declaracion = declaracion,
                                   !.reloj = reloj]
    \/ \E args \in RefArgSet :
          sign = [NoSign EXCEPT !.signer = "createReference", !.pc = "reference",
                                !.refArgs = args]

\* signXML up to the digests of SignedProperties and KeyInfo: the identifiers
\* are drawn, both elements are built and digested
SignPreparar ==
    /\ sign.signer \in {"XAdESSignatureService", "SRIXmlSigner"}
    /\ sign.pc = "ids"
    /\ \E sig \in IdSuffixFijo, sp \in IdSuffixes, ki \in IdSuffixFijo, ref \in IdSuffixes :
          sign' = [sign EXCEPT
                     !.pc = "signedInfo",
                     !.signatureId =
                         IF sign.signer = "SRIXmlSigner" THEN <<"Signature">> \o sig
                         ELSE <<"Signature-">> \o sig,
                     !.signedPropsId =
                         IF sign.signer = "SRIXmlSigner"
                         THEN <<"Signature">> \o sig \o <<"-SignedProperties">> \o sp
                         ELSE <<"SignedProperties-">> \o sp,
                     !.keyInfoId =
                         IF sign.signer = "SRIXmlSigner" THEN <<"Certificate">> \o ki
                         ELSE <<"Certificate">> \o sign.reloj,
                     !.referenceId =
                         IF sign.signer = "SRIXmlSigner" THEN <<"Reference-ID-">> \o ref
                         ELSE <<"Reference-">> \o ref]
    /\ UNCHANGED <<claveVars, connVars, procVars, c14n, cert>>

\* signXML: SignedInfo is assembled from the digests
SignCrearSignedInfo ==
    /\ sign.pc = "signedInfo"
    /\ \E u \in IdSuffixFijo :
          sign' = [sign EXCEPT
                     !.pc = "signatureValue",
                     !.signedInfo =
                         IF sign.signer = "SRIXmlSigner"
                         THEN createSignedInfoSRI(<<"Signature-SignedInfo">> \o u,
                                                  <<"SignedPropertiesID">> \o u,
                                                  sign.signedPropsId,
                                                  Digest("SignedProperties", sign.signedPropsId),
                                                  sign.keyInfoId,
                                                  Digest("KeyInfo", sign.keyInfoId),
                                                  sign.referenceId,
                                                  Digest("documento", <<>>))
                         ELSE createSignedInfo(sign.referenceId,
                                               sign.signedPropsId,
                                               Digest("SignedProperties", sign.signedPropsId),
                                               sign.keyInfoId,
                                               Digest("KeyInfo", sign.keyInfoId),
                                               Digest("documento", <<>>),
                                               sign.algorithm,
                                               u[2])]
    /\ UNCHANGED <<claveVars, connVars, procVars, c14n, cert>>

\* the RSA signature of the canonical SignedInfo, as an opaque text
Firma(signedInfo) ==
    <<"rsa(">> \o Attr(KidsTagged(signedInfo, "ds:Reference")[1], "URI")
               \o Attr(KidsTagged(signedInfo, "ds:Reference")[2], "URI")
               \o Attr(KidsTagged(signedInfo, "ds:Reference")[3], "Id") \o <<")">>

\* the ds:Object holding QualifyingProperties and SignedProperties
createObject(prefix, signatureId, signedPropsId) ==
    Elem("ds:Object", << <<"Id", <<"Object">> >> >>,
         << Elem(prefix \o ":QualifyingProperties",
                 << <<"Target", <<"#">> \o signatureId>> >>,
                 << Elem(prefix \o ":SignedProperties", << <<"Id", signedPropsId>> >>,
                         <<>>, <<>>) >>,
                 <<>>) >>,
         <<>>)

\* the ds:Signature element XAdESSignatureService.signXML assembles
createSignatureElement(signatureId, signedInfo, keyInfoId, signedPropsId) ==
    Elem("ds:Signature",
         << <<"Id", signatureId>>,
            <<"xmlns:ds", <<"http://www.w3.org/2000/09/xmldsig#">> >>,
            <<"xmlns:etsi", <<"http://uri.etsi.org/01903/v1.3.2#">> >> >>,
         << signedInfo,
            Elem("ds:SignatureValue", << <<"Id", <<"SignatureValue">> >> >>, <<>>,
                 Firma(signedInfo)),
            Elem("ds:KeyInfo", << <<"Id", keyInfoId>> >>, <<>>, <<>>),
            createObject("xades", signatureId, signedPropsId) >>,
         <<>>)

\* SRIXmlSigner.buildSignatureElement: the element its template denotes
buildSignatureElement(signatureId, signedInfo, keyInfoId, signedPropsId) ==
    Elem("ds:Signature",
         << <<"xmlns:ds", <<"http://www.w3.org/2000/09/xmldsig#">> >>,
            <<"xmlns:etsi", <<"http://uri.etsi.org/01903/v1.3.2#">> >>,
            <<"Id", signatureId>> >>,
         << signedInfo,
            Elem("ds:SignatureValue", << <<"Id", <<"SignatureValue">> >> >>, <<>>,
                 <<"\n">> \o Firma(signedInfo) \o <<"\n">>),
            Elem("ds:KeyInfo", << <<"Id", keyInfoId>> >>, <<>>, <<>>),
            createObject("etsi", signatureId, signedPropsId) >>,
         <<>>)

\* rootElement.appendChild(node)
appendChild(root, node) == [root EXCEPT !.kids = Append(root.kids, node)]

\* signXML, from the signature value to the returned text: the ds:Signature
\* element is completed and appended to the root, the document is serialized
\* (and, by XAdESSignatureService, formatted)
SignInsertar ==
    /\ sign.pc = "signatureValue"
    /\ LET firmado ==
               IF sign.signer = "SRIXmlSigner"
               THEN appendChild(
                        appendChild(
                            appendChild(sign.xmlContent,
                                        Text(<<"\n", " ", " ", " ", " ">>)),
                            buildSignatureElement(sign.signatureId, sign.signedInfo,
                                                  sign.keyInfoId, sign.signedPropsId)),
                        Text(<<"\n">>))
               ELSE appendChild(sign.xmlContent,
                                createSignatureElement(sign.signatureId, sign.signedInfo,
                                                       sign.keyInfoId, sign.signedPropsId))
           signedXml == serializeDocument(sign.declaracion, firmado)
       IN  sign' = [sign EXCEPT
                      !.pc = "done",
                      !.output = IF sign.signer = "SRIXmlSigner" THEN signedXml
                                 ELSE formatXML(signedXml)]
    /\ UNCHANGED <<claveVars, connVars, procVars, c14n, cert>>

\* signXML returning the document without having appended the signature
signXMLSinInsertar(xmlContent, declaracion, algorithm, reloj, sig, sp, ref, u) ==
    formatXML(serializeDocument(declaracion, xmlContent))

\* XAdESSignatureService.signXML as one call: the text it returns for the
\* document, the clock reading and the identifiers drawn
signXML(xmlContent, declaracion, algorithm, reloj, sig, sp, ref, u) ==
    LET signatureId   == <<"Signature-">> \o sig
        signedPropsId == <<"SignedProperties-">> \o sp
        keyInfoId     == <<"Certificate">> \o reloj
        referenceId   == <<"Reference-">> \o ref
        signedInfo    == createSignedInfo(referenceId, signedPropsId,
                                          Digest("SignedProperties", signedPropsId),
                                          keyInfoId, Digest("KeyInfo", keyInfoId),
                                          Digest("documento", <<>>), algorithm, u[2])
    IN  formatXML(serializeDocument(declaracion,
            appendChild(xmlContent,
                        createSignatureElement(signatureId, signedInfo, keyInfoId,
                                               signedPropsId))))

\* the root element of the XML that buildFactura, buildNotaCredito and
\* buildComprobanteRetencion write; the content of infoTributaria and the
\* elements after it are cut down to one text
RaizDeProceso == [invoice |-> "factura", notaCredito |-> "notaCredito",
                  retencion |-> "comprobanteRetencion"]

xmlOriginal(tipo) ==
    Elem(RaizDeProceso[tipo],
         << <<"xmlns:ds", <<"http://www.w3.org/2000/09/xmldsig#">> >>,
            <<"id", <<"comprobante">> >>,
            <<"version", <<"2.1.0">> >> >>,
         << Elem("infoTributaria", <<>>, <<>>, <<"t">>) >>,
         <<>>)

\* the names of the elements of a serialized document, in document order
Elementos(xml) ==
    LET inicios == SubSeqAt(xml, {i \in 1..Len(xml) : xml[i].t = "start"})
    IN  [i \in 1..Len(inicios) |-> inicios[i].tag]

\* 2-3. the certificate is fetched and signatureService.signXML is called with
\* { algorithm: 'SHA1' }; it returns the signed text or throws.  Of the signed
\* text the request keeps the names of its elements.
ProcSign ==
    /\ Running("process")
    /\ Top.pc = "sign"
    /\ \E ok \in BOOLEAN, reloj \in Relojes, sig \in IdSuffixFijo, sp \in IdSuffixFijo,
          ref \in IdSuffixFijo, u \in IdSuffixFijo :
          LET sigue == pasoSiguiente("sign", ok)
              fase  == IF proc.faseError # "none" THEN proc.faseError
                       ELSE IF ok THEN "none" ELSE "sign"
              xmlFirmado == signXML(xmlOriginal(proc.tipo), TRUE,
                                    "SHA1", reloj, sig, sp, ref, u)
          IN  IF sigue = "catch"
              THEN ProcReturn(ResultError(proc.claveAcceso), fase)
              ELSE /\ proc' = [proc EXCEPT !.xmlFirmado = IF ok THEN Elementos(xmlFirmado) ELSE <<>>,
                                           !.faseError = fase]
                   /\ stack' = <<Frame("process", sigue)>>
                   /\ UNCHANGED outcome
    /\ UNCHANGED <<config, elapsed, espera, attempt, delays, remoteLog, sleepLog>>
    /\ UNCHANGED <<claveVars, signVars>>

\* the identifiers a run of signXML has drawn at random (the keyInfoId of
\* XAdESSignatureService comes from the clock)
IdsDe(sg) ==
    <<sg.signatureId, sg.signedPropsId, sg.referenceId>>
        \o (IF sg.signer = "SRIXmlSigner" THEN <<sg.keyInfoId>> ELSE <<>>)

\* signXML called again on the same document at a later clock reading
SignOtraVezMasTarde ==
    /\ sign.signer \in {"XAdESSignatureService", "SRIXmlSigner"}
    /\ sign.pc = "done"
    /\ sign.anterior = <<>>
    /\ sign' = [sign EXCEPT !.pc = "ids", !.anterior = sign.output, !.output = <<>>,
                            !.anteriorIds = IdsDe(sign), !.reloj = <<"1000002">>,
                            !.signatureId = <<>>, !.signedPropsId = <<>>,
                            !.keyInfoId = <<>>, !.referenceId = <<>>,
                            !.signedInfo = NoElem]
    /\ UNCHANGED <<claveVars, connVars, procVars, c14n, cert>>

\* signXML is called again on the same document, with the same certificate
\* and key, at the same clock reading
SignOtraVez ==
    /\ sign.signer \in {"XAdESSignatureService", "SRIXmlSigner"}
    /\ sign.pc = "done"
    /\ sign.anterior = <<>>
    /\ sign' = [sign EXCEPT !.pc = "ids", !.anterior = sign.output, !.output = <<>>,
                            !.anteriorIds = IdsDe(sign),
                            !.signatureId = <<>>, !.signedPropsId = <<>>,
                            !.keyInfoId = <<>>, !.referenceId = <<>>,
                            !.signedInfo = NoElem]
    /\ UNCHANGED <<claveVars, connVars, procVars, c14n, cert>>

\* one call of createReference with the arguments chosen
LlamarCreateReference ==
    /\ sign.signer = "createReference"
    /\ sign.pc = "reference"
    /\ sign' = [sign EXCEPT
                  !.pc = "done",
                  !.reference = createReference(sign.refArgs.id, sign.refArgs.uri,
                                                sign.refArgs.digestValue,
                                                sign.refArgs.isEnveloped,
                                                sign.refArgs.type)]
    /\ UNCHANGED <<claveVars, connVars, procVars, c14n, cert>>

(***************************************************************************)
(* SRIC14N.  Attribute names and values are sequences of characters; the   *)
(* canonical text is a sequence of text pieces.                            *)
(***************************************************************************)
xmlns == <<"x", "m", "l", "n", "s">>

\* the characters of the names used, in the order localeCompare gives them
Collation == <<":", "1", "2", "3", "a", "d", "e", "i", "l", "m", "n", "o", "r", "s",
               "u", "v", "x">>
CharRank(ch) == CHOOSE i \in 1..Len(Collation) : Collation[i] = ch

\* String.prototype.localeCompare: negative, zero or positive
RECURSIVE localeCompare(_, _)
localeCompare(a, b) ==
    IF a = <<>> /\ b = <<>> THEN 0
    ELSE IF a = <<>> THEN -1
    ELSE IF b = <<>> THEN 1
    ELSE IF CharRank(Head(a)) < CharRank(Head(b)) THEN -1
    ELSE IF CharRank(Head(a)) > CharRank(Head(b)) THEN 1
    ELSE localeCompare(Tail(a), Tail(b))

startsWith(str, prefix) ==
    Len(str) >= Len(prefix) /\ SubSeq(str, 1, Len(prefix)) = prefix

\* String.prototype.indexOf, 0-based; -1 when the character is absent
indexOf(str, ch) ==
    IF \E i \in 1..Len(str) : str[i] = ch
    THEN (CHOOSE i \in 1..Len(str) : str[i] = ch /\ \A j \in 1..(i - 1) : str[j] # ch) - 1
    ELSE -1

\* splitQName: the prefix stands for the namespace URI
splitQName(qname) ==
    LET colonIndex == indexOf(qname, ":")
    IN  IF colonIndex = -1 THEN [namespaceURI |-> <<>>, localName |-> qname]
        ELSE [namespaceURI |-> Substring(qname, 0, colonIndex),
              localName |-> Substring(qname, colonIndex + 1, Len(qname))]

attributeCompare(a, b) ==
    LET aParts == splitQName(a)
        bParts == splitQName(b)
    IN  IF aParts.namespaceURI # bParts.namespaceURI
        THEN IF aParts.namespaceURI = <<>> THEN -1
             ELSE IF bParts.namespaceURI = <<>> THEN 1
             ELSE localeCompare(aParts.namespaceURI, bParts.namespaceURI)
        ELSE localeCompare(aParts.localName, bParts.localName)

\* Array.prototype.sort (stable) of <<name, value>> pairs: by attributeCompare
\* of the names, or (porNombre) by localeCompare of the names
RECURSIVE sortPairs(_, _)
sortPairs(pairs, porNombre) ==
    IF pairs = <<>> THEN <<>>
    ELSE LET rest == sortPairs(SubSeq(pairs, 1, Len(pairs) - 1), porNombre)
             x    == pairs[Len(pairs)]
             cmp(y) == IF porNombre THEN localeCompare(y[1], x[1])
                       ELSE attributeCompare(y[1], x[1])
             \* x goes after the last element that is not greater than it
             k    == IF \E i \in 1..Len(rest) : cmp(rest[i]) <= 0
                     THEN CHOOSE i \in 1..Len(rest) :
                             cmp(rest[i]) <= 0 /\ \A j \in (i + 1)..Len(rest) : cmp(rest[j]) > 0
                     ELSE 0
         IN  SubSeq(rest, 1, k) \o <<x>> \o SubSeq(rest, k + 1, Len(rest))

\* namespaces[prefix] = value on an object kept as <<prefix, value>> pairs in
\* insertion order
putNamespace(namespaces, prefix, value) ==
    IF \E i \in 1..Len(namespaces) : namespaces[i][1] = prefix
    THEN [i \in 1..Len(namespaces) |->
             IF namespaces[i][1] = prefix THEN <<prefix, value>> ELSE namespaces[i]]
    ELSE Append(namespaces, <<prefix, value>>)

\* extractNamespaces(element), over element.attributes in document order
RECURSIVE extractNamespaces(_)
extractNamespaces(attrs) ==
    IF attrs = <<>> THEN <<>>
    ELSE LET attr == attrs[Len(attrs)]
             antes == extractNamespaces(SubSeq(attrs, 1, Len(attrs) - 1))
         IN  IF startsWith(attr[1], xmlns)
             THEN putNamespace(antes,
                               IF attr[1] = xmlns THEN <<>>
                               ELSE Substring(attr[1], 6, Len(attr[1])),
                               attr[2])
             ELSE antes

getSortedAttributes(attrs) ==
    sortPairs(SelectSeq(attrs, LAMBDA attr : ~startsWith(attr[1], xmlns)), FALSE)

getSortedNamespaces(namespaces) ==
    sortPairs([i \in 1..Len(namespaces) |->
                  << IF namespaces[i][1] = <<>> THEN xmlns
                     ELSE xmlns \o <<":">> \o namespaces[i][1],
                     namespaces[i][2] >>],
              TRUE)

escapeAttributeValue(value) ==
    [i \in 1..Len(value) |->
        CASE value[i] = "&"  -> "&amp;"
          [] value[i] = "<"  -> "&lt;"
          [] value[i] = "\"" -> "&quot;"
          [] value[i] = "\t" -> "&#x9;"
          [] value[i] = "\n" -> "&#xA;"
          [] value[i] = "\r" -> "&#xD;"
          [] OTHER -> value[i]]

canonicalizeText(text) ==
    [i \in 1..Len(text) |->
        CASE text[i] = "&"  -> "&amp;"
          [] text[i] = "<"  -> "&lt;"
          [] text[i] = ">"  -> "&gt;"
          [] text[i] = "\r" -> "&#xD;"
          [] OTHER -> text[i]]

RECURSIVE writePairs(_)
\* ` name="value"` for each pair
writePairs(pairs) ==
    IF pairs = <<>> THEN <<>>
    ELSE <<" ">> \o Head(pairs)[1] \o <<"=\"">> \o escapeAttributeValue(Head(pairs)[2])
            \o <<"\"">> \o writePairs(Tail(pairs))

RECURSIVE canonicalizeNodes(_)
\* canonicalizeNode: canonicalizeElement for an element, canonicalizeText for
\* a text node
\* (canonicalizeElement merges inheritedNamespaces with the local declarations
\* and hands the result to the children, but reads it nowhere: what is written
\* depends on the element alone)
canonicalizeNode(node) ==
    IF node.tag = "#text" THEN canonicalizeText(node.text)
    ELSE <<"<", node.tag>>
            \o writePairs(getSortedNamespaces(extractNamespaces(node.attrs)))
            \o writePairs(getSortedAttributes(node.attrs))
            \o <<">">>
            \o canonicalizeText(node.text)
            \o canonicalizeNodes(node.kids)
            \o <<"</", node.tag, ">">>

canonicalizeNodes(nodes) ==
    IF nodes = <<>> THEN <<>>
    ELSE canonicalizeNode(Head(nodes)) \o canonicalizeNodes(Tail(nodes))

\* canonicalize(xmlContent), xmlContent being the text of the document `root`
canonicalize(root) == canonicalizeNode(root)

\* every element but the root counts as a signature
esFirmaCualquiera(node) == node.tag # "#text"

\* getElementsByTagNameNS(xmldsig, 'Signature'): is the node such an element
esFirma(node) == node.tag = "ds:Signature"

RECURSIVE removeSignatures(_)
\* the tree without its ds:Signature elements
removeSignatures(node) ==
    [node EXCEPT !.kids =
        LET kept == SelectSeq(node.kids, LAMBDA k : ~esFirma(k))
        IN  [i \in 1..Len(kept) |-> removeSignatures(kept[i])]]

canonicalizeForEnvelopedDigest(root) == canonicalizeNode(removeSignatures(root))

\* the attributes a document's element may carry, in a reference order
AttrPool == << <<<<"i", "d">>, <<"1">>>>,
               <<xmlns, <<"u", "1">>>>,
               <<xmlns \o <<":", "d", "s">>, <<"u", "2">>>>,
               <<xmlns \o <<"a">>, <<"u", "3">>>>,
               <<<<"d", "s", ":", "i", "d">>, <<"2", "&">>>> >>
MaxAttrs == 3

\* the orders in which the attributes with the indices in K can be written
Ordenes(K) ==
    {o \in [1..Cardinality(K) -> K] : \A i, j \in 1..Cardinality(K) : i # j => o[i] # o[j]}

\* children of the root: an element carrying `attrs`, then nothing, a text
\* node or a signature
C14nKids(attrs) ==
    { << Elem("detalle", attrs, <<>>, <<"t", "<">>) >>,
      << Elem("detalle", attrs, <<>>, <<>>), Text(<<"\n", " ">>) >>,
      << Elem("detalle", attrs, <<>>, <<"t">>),
         Elem("ds:Signature", <<>>, << Elem("ds:SignedInfo", <<>>, <<>>, <<>>) >>, <<>>) >> }

\* a document and the same document with the attributes of one element
\* written in another order
InitC14n ==
    \E K \in SUBSET (1..Len(AttrPool)) :
        /\ Cardinality(K) <= MaxAttrs
        /\ \E o \in Ordenes(K), enRaiz \in BOOLEAN, v \in 1..3 :
              LET enOrden == SubSeqAt(AttrPool, K)
                  otro    == [i \in 1..Cardinality(K) |-> AttrPool[o[i]]]
                  doc(attrs) ==
                      IF enRaiz
                      THEN Elem("factura", attrs,
                                CHOOSE k \in C14nKids(<<>>) : Len(k) = 1 + (v % 2), <<>>)
                      ELSE Elem("factura", <<>>,
                                CHOOSE k \in C14nKids(attrs) :
                                    /\ Len(k) = IF v = 1 THEN 1 ELSE 2
                                    /\ v = 3 <=> k[Len(k)].tag = "ds:Signature",
                                <<>>)
              IN  c14n = [pc |-> "canonicalize", doc |-> doc(enOrden),
                          permutado |-> doc(otro), out |-> <<>>, outPermutado |-> <<>>,
                          outEnveloped |-> <<>>]

\* canonicalize(document)
Canonicalizar ==
    /\ c14n.pc = "canonicalize"
    /\ c14n' = [c14n EXCEPT !.pc = "permutado", !.out = canonicalize(c14n.doc)]
    /\ UNCHANGED <<claveVars, connVars, procVars, sign, cert>>

\* canonicalize(the document with its attributes in the other order)
CanonicalizarPermutado ==
    /\ c14n.pc = "permutado"
    /\ c14n' = [c14n EXCEPT !.pc = "enveloped",
                            !.outPermutado = canonicalize(c14n.permutado)]
    /\ UNCHANGED <<claveVars, connVars, procVars, sign, cert>>

\* canonicalizeForEnvelopedDigest(document)
CanonicalizarEnveloped ==
    /\ c14n.pc = "enveloped"
    /\ c14n' = [c14n EXCEPT !.pc = "done",
                            !.outEnveloped = canonicalizeForEnvelopedDigest(c14n.doc)]
    /\ UNCHANGED <<claveVars, connVars, procVars, sign, cert>>

(***************************************************************************)
(* Claims on ClaveAccesoService                                            *)
(***************************************************************************)
\* C1: every key generate returns is exactly 49 decimal digits and validate
\* accepts it.
C1_GenerateValida ==
    genResult.status = "ok" =>
        /\ Len(genResult.key) = 49
        /\ AllDigits(genResult.key)
        /\ validate(genResult.key)

\* a key was generated from the parameters of the repository's test vector
C1_Witness ==
    /\ genResult.status = "ok"
    /\ Substring(genResult.key, 0, 24) = formatFecha(Fecha(15, 1, 2024)) \o <<"0","1">>
                                           \o RucOk \o <<"1">>
    /\ validate(genResult.key)

residuoDe(clave49) == residuoModulo11(Substring(clave49, 0, 48))

\* C2 as stated: changing any one of the first 48 digits of a valid key makes
\* validate false.
C2_MutacionDetectada ==
    mutada # <<>> => ~validate(mutada)

\* C2 amended: a changed digit always changes the weighted remainder, and
\* validate rejects the changed key unless the two remainders are 1 and 10,
\* which both map to check digit 1.
C2_MutacionDetectadaSalvoUnoDiez ==
    mutada # <<>> =>
        /\ residuoDe(mutada) # residuoDe(genResult.key)
        /\ validate(mutada) <=> {residuoDe(mutada), residuoDe(genResult.key)} = {1, 10}

\* a changed key that validate rejects
C2_Witness ==
    /\ mutada # <<>>
    /\ validate(genResult.key)
    /\ ~validate(mutada)

(***************************************************************************)
(* Specifications                                                          *)
(***************************************************************************)

\* ClaveAccesoService.generate on every parameter set, then one changed digit
NextClave == Generate \/ MutarDigito \/ Parse

InitClaveAll ==
    /\ params \in ParamSet
    /\ genResult = GenNone
    /\ mutada = <<>>
    /\ parsed = NoParsed
    /\ modulo = NoModulo
    /\ config = [maxRetries |-> 3, recepcionClient |-> FALSE, autorizacionClient |-> FALSE]
    /\ stack = <<>>
    /\ elapsed = 0
    /\ espera = NoEspera
    /\ attempt = 0
    /\ delays = <<>>
    /\ remoteLog = NoRemote
    /\ sleepLog = NoSleep
    /\ outcome = NoOutcome
    /\ proc = NoProc
    /\ sign = NoSign
    /\ c14n = NoC14n
    /\ cert = NoCert
SpecClave == InitClaveAll /\ [][NextClave]_vars

\* one invocation of validarComprobante or of autorizacionComprobante
InitConn ==
    /\ ClaveIdle /\ ProcIdle /\ SignIdle
    /\ \E n \in 0..MaxRetriesCfg, listo \in BOOLEAN :
          config = [maxRetries |-> n, recepcionClient |-> listo,
                    autorizacionClient |-> listo]
    /\ \E fn \in {"validar", "autorizacion"} : stack = <<Frame(fn, "init")>>
    /\ elapsed = 0
    /\ espera = NoEspera
    /\ attempt = 0
    /\ delays = <<>>
    /\ remoteLog = NoRemote
    /\ sleepLog = NoSleep
    /\ outcome = NoOutcome

NextConn == InitializeClients \/ RecepcionCall \/ AutorizacionCall \/ RetrySleep
SpecConn == InitConn /\ [][NextConn]_vars

\* one invocation of autorizacionComprobanteConEspera
MaxRetriesEspera == 2
EsperaArgs == {<<0, 5000>>, <<9000, 2000>>, <<12000, 5000>>}

InitEspera ==
    /\ ClaveIdle /\ ProcIdle /\ SignIdle
    /\ \E n \in 1..MaxRetriesEspera :
          config = [maxRetries |-> n, recepcionClient |-> FALSE,
                    autorizacionClient |-> FALSE]
    /\ stack = <<Frame("espera", "check")>>
    /\ elapsed = 0
    /\ \E a \in EsperaArgs :
          espera = [maxEspera |-> a[1], intervalo |-> a[2], polls |-> 0, sleeps |-> 0]
    /\ attempt = 0
    /\ delays = <<>>
    /\ remoteLog = NoRemote
    /\ sleepLog = NoSleep
    /\ outcome = NoOutcome

NextEspera == \/ InitializeClients \/ AutorizacionCall \/ RetrySleep
              \/ EsperaCheck \/ EsperaHandle \/ EsperaSleep
SpecEspera == InitEspera /\ [][NextEspera]_vars

(***************************************************************************)
(* Claims on SRIConnectorService                                           *)
(***************************************************************************)
Finished(fn) == stack = <<>> /\ outcome.from = fn

\* C3: when the reception service answers DEVUELTA, validarComprobante
\* returns that answer as a value and the invocation is over: no sleep and no
\* further reception call follow, however many attempts remain.
C3_DevueltaEsTerminal ==
    remoteLog.last = "DEVUELTA" =>
        /\ Finished("validar")
        /\ outcome.kind = "return"
        /\ outcome.estado = "DEVUELTA"

\* DEVUELTA answered on a retry, with attempts still left
C3_Witness ==
    /\ remoteLog.last = "DEVUELTA"
    /\ remoteLog.invocation = 2
    /\ config.maxRetries >= 4
    /\ Finished("validar")

EsperaReturned == Finished("espera") /\ outcome.kind = "return"
EsperaThrew    == Finished("espera") /\ outcome.kind = "throw"

Pendiente(o) ==
    o.kind = "return" /\ (o.autorizaciones = <<>>
                           \/ o.autorizaciones[1].estado = "EN PROCESAMIENTO")

C5_SinDefinitivoTerminaEnTimeout ==
    (Finished("espera")
       /\ ~(outcome.kind = "return" /\ outcome.autorizaciones # <<>>
             /\ outcome.autorizaciones[1].estado \in EstadosDefinitivos))
    => /\ outcome.kind = "throw"
       /\ outcome.error = ErrTimeoutEspera
       /\ elapsed >= espera.maxEspera

\* C5 amended: when autorizacionComprobanteConEspera ends without returning a
\* response, it ends by raising either the timeout error, with maxEspera
\* elapsed, or the error of its last autorizacionComprobante call, with less
\* than one interval left before maxEspera.
C5_TerminaEnTimeoutOErrorDeConsulta ==
    EsperaThrew =>
        \/ /\ outcome.error = ErrTimeoutEspera
           /\ elapsed >= espera.maxEspera
        \/ /\ outcome.error \in RemoteErrors \cup {ErrProceso, ErrConectar, ErrFallo}
           /\ elapsed + espera.intervalo >= espera.maxEspera

\* the timeout error raised after polls that all found the record in process
C5_Witness ==
    /\ EsperaThrew
    /\ outcome.error = ErrTimeoutEspera
    /\ espera.polls >= 2
    /\ remoteLog.last = "respuesta"

NombresRecuperables == {"timeout", "http503", "sri70"}
NombresDeError == {e.name : e \in RemoteErrors \cup {ErrProceso}}

\* C6: in one invocation of validarComprobante or autorizacionComprobante at
\* most maxRetries remote calls are made, a call that failed with a retryable
\* error is repeated only after a backoff sleep and is given up only when
\* maxRetries calls were made, and an invocation whose last call failed ends
\* by raising an error.
C6_ReintentosAcotados ==
    /\ remoteLog.invocation <= config.maxRetries
    /\ (stack # <<>> /\ Top.pc = "call" /\ remoteLog.last \in NombresRecuperables)
          => /\ sleepLog.afterCall = remoteLog.invocation
             /\ Len(delays) >= 1
    /\ (stack = <<>> /\ remoteLog.last \in NombresRecuperables)
          => remoteLog.invocation = config.maxRetries
    /\ (stack = <<>> /\ remoteLog.last \in NombresDeError) => outcome.kind = "throw"

\* every one of three calls failed with a retryable error and the call raised
C6_Witness ==
    /\ stack = <<>>
    /\ config.maxRetries = 3
    /\ remoteLog.invocation = 3
    /\ Len(delays) = 2
    /\ outcome.error = ErrFallo

\* C7 as stated: the delays slept before successive retries of one invocation
\* form a non-decreasing sequence.
C7_DelaysNoDecrecen ==
    \A i \in 1..(Len(delays) - 1) : delays[i].ms <= delays[i + 1].ms

\* C7 amended: a delay is at least the one before it as long as the
\* exponential term of the earlier one is below the cap of 30000 ms; once the
\* cap is reached a delay may be smaller than the one before it, by less than
\* the 1000 ms of jitter.
C7_DelaysNoDecrecenBajoElTope ==
    \A i \in 1..(Len(delays) - 1) :
        /\ baseDelay * Pow2(delays[i].attempt - 1) < maxDelay
              => delays[i].ms <= delays[i + 1].ms
        /\ delays[i + 1].ms > delays[i].ms - 1000

\* two retries slept, the second longer than the first
C7_Witness ==
    /\ Len(delays) >= 2
    /\ delays[1].ms < delays[2].ms

\* one request of processInvoice, processNotaCredito or processRetencion
MaxRetriesProceso == 2

ProcParamSet ==
    { p \in ParamSet :
        /\ p.ambiente = 1 /\ p.tipoEmision = 1 /\ p.tipoComprobante = <<"0","1">>
        /\ p.establecimiento = <<"0","0","1">> /\ p.puntoEmision = <<"0","0","1">>
        /\ p.secuencial \in {<<"1">>, <<"1","2","x">>}
        /\ p.fechaEmision \in {Fecha(15, 1, 2024), FechaInvalida} }

InitProcess ==
    /\ params \in ProcParamSet
    /\ genResult = GenNone
    /\ mutada = <<>>
    /\ parsed = NoParsed
    /\ modulo = NoModulo
    /\ SignIdle
    /\ \E tipo \in {"invoice", "notaCredito", "retencion"} :
          proc = [NoProc EXCEPT !.tipo = tipo]
    /\ \E n \in 1..MaxRetriesProceso :
          config = [maxRetries |-> n, recepcionClient |-> FALSE,
                    autorizacionClient |-> FALSE]
    /\ stack = <<Frame("process", "build")>>
    /\ elapsed = 0
    /\ espera = NoEspera
    /\ attempt = 0
    /\ delays = <<>>
    /\ remoteLog = NoRemote
    /\ sleepLog = NoSleep
    /\ outcome = NoOutcome

NextProcess == \/ ProcBuild \/ ProcSign \/ ProcEnviar \/ ProcRecepcion \/ ProcAutorizacion
               \/ InitializeClients \/ RecepcionCall \/ AutorizacionCall \/ RetrySleep
               \/ EsperaCheck \/ EsperaHandle \/ EsperaSleep
SpecProcess == InitProcess /\ [][NextProcess]_vars

\* the signers up to the assembly of SignedInfo, and createReference alone
InitSignAll ==
    InitSign /\ c14n = NoC14n /\ cert = NoCert /\ ClaveIdle /\ ConnIdle /\ ProcIdle
NextSign ==
    \/ SignPreparar \/ SignCrearSignedInfo \/ SignInsertar \/ SignOtraVez
    \/ LlamarCreateReference
SpecSign == InitSignAll /\ [][NextSign]_vars

(***************************************************************************)
(* Claims on InvoiceProcessorService                                       *)
(***************************************************************************)
\* C8: when building the XML (access-key validation included) or signing it
\* fails, the request ends with the ERROR result and no reception call, no
\* authorization call and no connection to the services has been made.
C8_FalloLocalSinLlamadas ==
    proc.faseError \in {"build", "sign"} =>
        /\ remoteLog.recepcion = 0
        /\ remoteLog.autorizacion = 0
        /\ ~config.recepcionClient /\ ~config.autorizacionClient
        /\ Finished("process")
        /\ proc.result.estado = "ERROR"
        /\ ~proc.result.success

\* a request that ended because the access-key parameters were invalid
C8_Witness ==
    /\ Finished("process")
    /\ proc.faseError = "build"
    /\ genResult.status = "error"
    /\ proc.result.estado = "ERROR"

(***************************************************************************)
(* Claims on the signers                                                   *)
(***************************************************************************)
References(signedInfo) == KidsTagged(signedInfo, "ds:Reference")

TransformsConContenido(ref) ==
    \A i \in 1..Len(ref.kids) :
        ref.kids[i].tag = "ds:Transforms"
            => KidsTagged(ref.kids[i], "ds:Transform") # <<>>

\* C10: a Reference that createReference builds holds a Transforms element
\* only with at least one Transform inside it, whatever isEnveloped and type
\* are, and the KeyInfo reference of a SignedInfo holds no Transforms element.
C10_SinTransformsVacio ==
    /\ sign.reference # NoElem =>
          /\ TransformsConContenido(sign.reference)
          /\ KidsTagged(sign.reference, "ds:Transforms") # <<>>
                <=> (sign.refArgs.isEnveloped
                     \/ sign.refArgs.type = TYPE_SIGNED_PROPERTIES)
    /\ sign.signedInfo # NoElem =>
          /\ \A i \in 1..Len(References(sign.signedInfo)) :
                TransformsConContenido(References(sign.signedInfo)[i])
          /\ KidsTagged(References(sign.signedInfo)[2], "ds:Transforms") = <<>>

\* createReference called for a reference that is neither enveloped nor of
\* the SignedProperties type
C10_Witness ==
    /\ sign.reference # NoElem
    /\ ~sign.refArgs.isEnveloped
    /\ sign.refArgs.type = <<"http://www.w3.org/2000/09/xmldsig#Object">>
    /\ KidsTagged(sign.reference, "ds:Transforms") = <<>>

\* the tokens of the root element: what follows the declaration and the
\* white space after it
RootTokens(xml) ==
    LET first == CHOOSE i \in 1..Len(xml) :
                    xml[i].t = "start" /\ \A j \in 1..(i - 1) : xml[j].t # "start"
    IN  SubSeq(xml, first, Len(xml))

SignatureStarts(xml) ==
    {i \in 1..Len(xml) : xml[i].t = "start" /\ xml[i].tag = "ds:Signature"}

SignatureEnds(xml) ==
    {i \in 1..Len(xml) : xml[i].t = "end" /\ xml[i].tag = "ds:Signature"}

\* the document with its signature elements taken out
SinFirma(xml) ==
    SubSeqAt(xml, {i \in 1..Len(xml) :
                     ~\E a \in SignatureStarts(xml), b \in SignatureEnds(xml) :
                         a <= i /\ i <= b})

\* C11: the text signXML returns holds exactly one signature element, that
\* element is the last child node of the root, and without it the root holds
\* the nodes of the input, in the same order.
C11_SoloSeAgregaLaFirma ==
    sign.output # <<>> =>
        LET root == RootTokens(sign.output)
        IN  /\ Cardinality(SignatureStarts(root)) = 1
            /\ root[Len(root)].t = "end"
            /\ root[Len(root) - 1].t = "end" /\ root[Len(root) - 1].tag = "ds:Signature"
            /\ SinFirma(root) = serializeToString(sign.xmlContent)

\* signXML has run twice on the same input
DosFirmas == sign.output # <<>> /\ sign.anterior # <<>>

InitC14nAll ==
    InitC14n /\ sign = NoSign /\ cert = NoCert /\ ClaveIdle /\ ConnIdle /\ ProcIdle
NextC14n == Canonicalizar \/ CanonicalizarPermutado \/ CanonicalizarEnveloped
SpecC14n == InitC14nAll /\ [][NextC14n]_vars

\* C13: canonicalize returns the same text for two documents that differ only
\* in the order in which the attributes and namespace declarations of an
\* element are written.
C13_OrdenDeAtributosIndiferente ==
    c14n.pc \in {"enveloped", "done"} => c14n.out = c14n.outPermutado

\* the document holds a signature element
TieneFirma(root) == \E i \in 1..Len(root.kids) : root.kids[i].tag = "ds:Signature"

\* C14: on a document that holds no signature element,
\* canonicalizeForEnvelopedDigest returns exactly what canonicalize returns.
C14_EnvelopedIgualSinFirma ==
    (c14n.pc = "done" /\ ~TieneFirma(c14n.doc)) => c14n.outEnveloped = c14n.out

\* both were applied to a document without signature that has attributes,
\* an element and a text node
C14_Witness ==
    /\ c14n.pc = "done"
    /\ ~TieneFirma(c14n.doc)
    /\ Len(c14n.doc.kids) = 2
    /\ Len(c14n.doc.attrs) = 2
    /\ c14n.outEnveloped = c14n.out
    /\ Len(c14n.out) > 10

\* the fields of p whose value does not fit the field of the key: the patterns
\* validateParams tests, and for secuencial the at most nine decimal digits
\* that padStart(9) and the 48-digit test of generate leave room for
CamposFueraDePatron(p) ==
    {"ruc" : x \in {0} \cap (IF Len(p.ruc) = 13 /\ AllDigits(p.ruc)
                                /\ Substring(p.ruc, 10, 13) = <<"0","0","1">>
                             THEN {} ELSE {0})}
    \cup {"ambiente" : x \in {0} \cap (IF p.ambiente \in {1, 2} THEN {} ELSE {0})}
    \cup {"tipoEmision" : x \in {0} \cap (IF p.tipoEmision \in {1, 2} THEN {} ELSE {0})}
    \cup {"establecimiento" : x \in {0} \cap
             (IF Len(p.establecimiento) = 3 /\ AllDigits(p.establecimiento)
              THEN {} ELSE {0})}
    \cup {"puntoEmision" : x \in {0} \cap
             (IF Len(p.puntoEmision) = 3 /\ AllDigits(p.puntoEmision)
              THEN {} ELSE {0})}
    \cup {"secuencial" : x \in {0} \cap
             (IF Len(p.secuencial) \in 1..9 /\ AllDigits(p.secuencial)
              THEN {} ELSE {0})}
    \cup {"tipoComprobante" : x \in {0} \cap
             (IF p.tipoComprobante \in {<<"0","1">>, <<"0","3">>, <<"0","4">>,
                                        <<"0","5">>, <<"0","6">>, <<"0","7">>}
              THEN {} ELSE {0})}

NombradosEnError == {genResult.errors[i] : i \in 1..Len(genResult.errors)}

\* C15: when the parameters violate the patterns of several fields at once,
\* generate fails with one error that names every violated field and returns
\* no key.
C15_ErrorNombraCadaCampo ==
    (genResult.status # "none" /\ Cardinality(CamposFueraDePatron(params)) >= 2) =>
        /\ genResult.status = "error"
        /\ genResult.key = <<>>
        /\ CamposFueraDePatron(params) \subseteq NombradosEnError

(***************************************************************************)
(* calcularModulo11 on 48-digit texts                                      *)
(***************************************************************************)
Repetir(c, n) == [i \in 1..n |-> c]

\* 48-digit texts: the first 48 digits of a key of the test vector, all zeros
\* and all nines, each with any one digit replaced by any digit
Claves48Base ==
    { formatFecha(Fecha(15, 1, 2024)) \o <<"0","1">> \o RucOk \o <<"1">>
          \o <<"0","0","1">> \o <<"0","0","1">>
          \o <<"0","0","0","0","0","0","0","0","1">>
          \o <<"1","2","3","4","5","6","7","8">> \o <<"1">>,
      Repetir("0", 48), Repetir("9", 48) }

Claves48 ==
    { [b EXCEPT ![pos] = DigitChars[d]] : b \in Claves48Base, pos \in 1..48, d \in 1..10 }

InitModulo11 ==
    /\ params = CHOOSE p \in ParamSet : TRUE
    /\ genResult = GenNone
    /\ mutada = <<>>
    /\ parsed = NoParsed
    /\ \E clave \in Claves48 : modulo = [clave |-> clave, digito |-> <<>>]
    /\ ConnIdle /\ ProcIdle /\ SignIdle
NextModulo11 == CalcularModulo11
SpecModulo11 == InitModulo11 /\ [][NextModulo11]_vars

\* the weight of the i-th digit from the left: 7,6,5,4,3,2 and again
PesoDesdeLaIzquierda(i) == 7 - ((i - 1) % 6)

RECURSIVE SumaDesde(_, _)
SumaDesde(clave, i) ==
    IF i > Len(clave) THEN 0
    ELSE DigitVal(clave[i]) * PesoDesdeLaIzquierda(i) + SumaDesde(clave, i + 1)

\* C16: for every 48-digit text calcularModulo11 returns one decimal digit, equal
\* to 11 - r with 11 read as 0 and 10 read as 1, where r is the sum of each digit
\* times its weight, modulo 11, the weights being 7,6,5,4,3,2 repeating from the
\* leftmost digit.
C16_DigitoEsOnceMenosResiduo ==
    modulo.digito # <<>> =>
        LET r == SumaDesde(modulo.clave, 1) % 11
            esperado == IF 11 - r = 11 THEN 0 ELSE IF 11 - r = 10 THEN 1 ELSE 11 - r
        IN  /\ Len(modulo.clave) = 48 /\ AllDigits(modulo.clave)
            /\ Len(modulo.digito) = 1
            /\ IsDigit(modulo.digito[1])
            /\ DigitVal(modulo.digito[1]) = esperado

\* the digit of a text whose weighted sum leaves remainder 1, which is read as 1
C16_Witness ==
    /\ modulo.digito = <<"1">>
    /\ SumaDesde(modulo.clave, 1) % 11 = 1
    /\ modulo.clave \notin Claves48Base

MaxTiempo == 2

P12Set ==
    [ contenido  : {"completo", "sinCertificado", "sinClave", "corrupto"},
      passwordOk : BOOLEAN,
      notBefore  : 0..MaxTiempo,
      notAfter   : 0..MaxTiempo ]

P12Ok(legacy)   == [status |-> "ok", legacy |-> legacy, error |-> "none", causa |-> "none"]
P12Error(e, c)  == [status |-> "error", legacy |-> FALSE, error |-> e, causa |-> c]

\* validateForSRI(cert) at time now: the message it throws, or "none"
validateForSRI(p12, now) ==
    IF p12.notAfter < now THEN "El certificado está expirado"
    ELSE IF p12.notBefore > now THEN "El certificado aún no es válido"
    ELSE "none"

\* the first throw of the try block of parseP12, or "none" when it returns
primerFallo(p12, now) ==
    IF p12.contenido = "corrupto" THEN "asn1"
    ELSE IF ~p12.passwordOk THEN "PKCS#12 MAC could not be verified. Invalid password?"
    ELSE IF p12.contenido = "sinCertificado"
         THEN "No se encontró certificado en el archivo P12"
    ELSE IF p12.contenido = "sinClave"
         THEN "No se encontró clave privada en el archivo P12"
    ELSE validateForSRI(p12, now)

\* parseP12Legacy: reads the file again and returns the material without
\* validateForSRI.  forge is handed the password inside an options object;
\* whether it opens a well-formed, complete file that way is forgeAbre.
parseP12Legacy(p12, forgeAbre) ==
    IF p12.contenido = "completo" /\ forgeAbre THEN P12Ok(TRUE)
    ELSE P12Error("Error en parseo legacy", "forge")

\* parseP12(p12Buffer, password) at time now, with ALLOW_LEGACY_ALGORITHMS
\* set ('true') or not
parseP12(p12, now, allowLegacy, forgeAbre) ==
    LET fallo == primerFallo(p12, now)
    IN  IF fallo = "none" THEN P12Ok(FALSE)
        ELSE IF fallo = "PKCS#12 MAC could not be verified. Invalid password?"
             THEN P12Error("Contraseña incorrecta para el certificado", fallo)
        ELSE IF allowLegacy THEN parseP12Legacy(p12, forgeAbre)
        ELSE P12Error("Error al parsear certificado P12", fallo)

InitCert ==
    \E p12 \in P12Set, now \in 0..MaxTiempo, allowLegacy \in BOOLEAN :
        /\ p12.notBefore <= p12.notAfter
        /\ cert = [pc |-> "parseP12", p12 |-> p12, now |-> now,
                   allowLegacy |-> allowLegacy, result |-> P12Error("none", "none")]

\* one call of parseP12
ParseP12 ==
    /\ cert.pc = "parseP12"
    /\ \E forgeAbre \in BOOLEAN :
          cert' = [cert EXCEPT !.pc = "done",
                               !.result = parseP12(cert.p12, cert.now, cert.allowLegacy,
                                                   forgeAbre)]
    /\ UNCHANGED <<claveVars, connVars, procVars, sign, c14n>>

InitCertAll ==
    InitCert /\ sign = NoSign /\ c14n = NoC14n /\ ClaveIdle /\ ConnIdle /\ ProcIdle
NextCert == ParseP12
SpecCert == InitCertAll /\ [][NextCert]_vars

\* the file is well-formed, the password opens it and it holds a certificate
\* and its key
P12Legible == cert.p12.contenido = "completo" /\ cert.p12.passwordOk

\* C18: parseP12 never returns certificate material for a certificate whose
\* validity window does not contain the current time: it fails with the
\* not-yet-valid error when now is before notBefore and with the expired error
\* when now is after notAfter, whatever ALLOW_LEGACY_ALGORITHMS is.
C18_FueraDeVigenciaFalla ==
    cert.pc = "done" =>
        /\ (cert.result.status = "ok" =>
                cert.p12.notBefore <= cert.now /\ cert.now <= cert.p12.notAfter)
        /\ (P12Legible /\ cert.now < cert.p12.notBefore =>
                /\ cert.result.status = "error"
                /\ cert.result.causa = "El certificado aún no es válido")
        /\ (P12Legible /\ cert.now > cert.p12.notAfter =>
                /\ cert.result.status = "error"
                /\ cert.result.causa = "El certificado está expirado")

(***************************************************************************)
(* Claims on the whole request                                             *)
(***************************************************************************)
\* the number of ds:Signature elements among the elements of a document
FirmasEn(elementos) ==
    Cardinality({i \in 1..Len(elementos) : elementos[i] = "ds:Signature"})

\* reception answered RECIBIDA and the authorization answer that ended the
\* wait starts with an AUTORIZADO record that has an authorization number
RecibidaYAutorizado ==
    /\ proc.tipo = "invoice"
    /\ Finished("process")
    /\ proc.respuestaRecepcion = "RECIBIDA"
    /\ Len(proc.respuestaAutorizacion) > 0
    /\ proc.respuestaAutorizacion[1].estado = "AUTORIZADO"
    /\ proc.respuestaAutorizacion[1].numeroAutorizacion # ""

\* C19: when reception answers RECIBIDA and the authorization service then
\* answers AUTORIZADO with an authorization number, processInvoice returns
\* success = true with a 49-digit access key, a signed XML holding exactly one
\* signature element, and that non-empty authorization number.
C19_RecibidaYAutorizadoEsExito ==
    RecibidaYAutorizado =>
        /\ proc.result.success
        /\ proc.result.estado = "AUTORIZADO"
        /\ Len(proc.result.claveAcceso) = 49
        /\ AllDigits(proc.result.claveAcceso)
        /\ FirmasEn(proc.result.xmlFirmado) = 1
        /\ proc.result.numeroAutorizacion # ""
        /\ proc.result.numeroAutorizacion
               = proc.respuestaAutorizacion[1].numeroAutorizacion

\* an invoice that was received, found in process at the first poll and
\* authorized at a later one
C19_Witness ==
    /\ RecibidaYAutorizado
    /\ proc.result.success
    /\ espera.polls >= 2
    /\ remoteLog.recepcion >= 1
    /\ FirmasEn(proc.result.xmlFirmado) = 1
    /\ validate(proc.result.claveAcceso)

(***************************************************************************)
(* The RSA key value of KeyInfo.  A public key is its modulus n and its    *)
(* exponent e; bytes are numbers 0..255, hexadecimal digits numbers 0..15. *)
(***************************************************************************)
MaxBits == 12

\* moduli of at most MaxBits bits (odd, as a product of odd primes is) and
\* public exponents in use
ModuloSet    == {n \in 3..(Pow2(MaxBits) - 1) : n % 2 = 1}
ExponenteSet == {3, 17, 65537}

RECURSIVE digitosEnBase(_, _)
\* the digits of n > 0 in the base given, most significant first, none leading zero
digitosEnBase(n, base) ==
    IF n < base THEN <<n>> ELSE Append(digitosEnBase(n \div base, base), n % base)

\* BigInteger.toString(16): the hexadecimal digits of n
toStringHex(n) == digitosEnBase(n, 16)

\* Buffer.from(hex, 'hex'): one byte for every two digits; a last digit left
\* alone is dropped
bufferFromHex(hex) == [i \in 1..(Len(hex) \div 2) |-> hex[2 * i - 1] * 16 + hex[2 * i]]

\* BigInteger.toByteArray of n > 0: the big-endian two's-complement bytes, so
\* with a zero byte in front whenever the top bit of the first byte is set
toByteArray(n) ==
    LET b == digitosEnBase(n, 256) IN IF b[1] >= 128 THEN <<0>> \o b ELSE b

Base64Alphabet ==
    << "A","B","C","D","E","F","G","H","I","J","K","L","M","N","O","P","Q","R","S","T",
       "U","V","W","X","Y","Z","a","b","c","d","e","f","g","h","i","j","k","l","m","n",
       "o","p","q","r","s","t","u","v","w","x","y","z","0","1","2","3","4","5","6","7",
       "8","9","+","/" >>

RECURSIVE base64(_)
\* Buffer.toString('base64') / forge.util.encode64 of a sequence of bytes
base64(bytes) ==
    LET c(v) == Base64Alphabet[v + 1]
    IN  IF Len(bytes) = 0 THEN <<>>
        ELSE IF Len(bytes) = 1
        THEN <<c(bytes[1] \div 4), c((bytes[1] % 4) * 16), "=", "=">>
        ELSE IF Len(bytes) = 2
        THEN <<c(bytes[1] \div 4), c((bytes[1] % 4) * 16 + bytes[2] \div 16),
               c((bytes[2] % 16) * 4), "=">>
        ELSE <<c(bytes[1] \div 4), c((bytes[1] % 4) * 16 + bytes[2] \div 16),
               c((bytes[2] % 16) * 4 + bytes[3] \div 64), c(bytes[3] % 64)>>
             \o base64(SubSeq(bytes, 4, Len(bytes)))

RECURSIVE enLineas(_, _)
\* text.match(/.{1,ancho}/g).join('\n')
enLineas(text, ancho) ==
    IF Len(text) <= ancho THEN text
    ELSE SubSeq(text, 1, ancho) \o <<"\n">> \o enLineas(SubSeq(text, ancho + 1, Len(text)), ancho)

\* XAdESSignatureService.createRSAKeyValue: the texts of ds:Modulus and ds:Exponent
createRSAKeyValue(n, e) ==
    LET modulus == base64(bufferFromHex(toStringHex(n)))
        exponentHex == IF Len(toStringHex(e)) % 2 # 0 THEN <<0>> \o toStringHex(e)
                       ELSE toStringHex(e)
    IN  [modulus  |-> <<"\n">> \o enLineas(modulus, 64) \o <<"\n">>,
         exponent |-> base64(bufferFromHex(exponentHex))]

\* SRIXmlSigner.createKeyInfoContent: the texts of ds:Modulus and ds:Exponent
createKeyInfoContent(n, e) ==
    [modulus  |-> <<"\n">> \o enLineas(base64(toByteArray(n)), 76) \o <<"\n">>,
     exponent |-> <<"A", "Q", "A", "B">>]

InitKeyInfo ==
    \E signer \in {"XAdESSignatureService", "SRIXmlSigner"}, n \in ModuloSet,
       e \in ExponenteSet :
        cert = [pc |-> "keyInfo", signer |-> signer, n |-> n, e |-> e,
                modulus |-> <<>>, exponent |-> <<>>]

\* KeyInfo is built for the certificate
CrearKeyInfo ==
    /\ cert.pc = "keyInfo"
    /\ LET kv == IF cert.signer = "SRIXmlSigner" THEN createKeyInfoContent(cert.n, cert.e)
                 ELSE createRSAKeyValue(cert.n, cert.e)
       IN  cert' = [cert EXCEPT !.pc = "keyInfoDone", !.modulus = kv.modulus,
                                !.exponent = kv.exponent]
    /\ UNCHANGED <<claveVars, connVars, procVars, sign, c14n>>

InitKeyInfoAll ==
    InitKeyInfo /\ sign = NoSign /\ c14n = NoC14n /\ ClaveIdle /\ ConnIdle /\ ProcIdle
NextKeyInfo == CrearKeyInfo
SpecKeyInfo == InitKeyInfoAll /\ [][NextKeyInfo]_vars

\* a text without its white space
sinEspacios(text) == SubSeqAt(text, {i \in 1..Len(text) : text[i] \notin Whitespace})

\* C20: the Modulus and the Exponent written into KeyInfo are each the base64 of
\* the minimal big-endian unsigned byte encoding of the certificate's own modulus
\* and public exponent: no leading zero byte, no dropped half-byte, for every key.
C20_ModulusYExponentMinimos ==
    cert.pc = "keyInfoDone" =>
        /\ sinEspacios(cert.modulus) = base64(digitosEnBase(cert.n, 256))
        /\ sinEspacios(cert.exponent) = base64(digitosEnBase(cert.e, 256))

(***************************************************************************)
(* formatIssuerName.  The issuer of a certificate is the sequence of its   *)
(* attributes (shortName, value) in the order of the certificate.          *)
(***************************************************************************)
MaxRdn == 3

RdnPool ==
    << <<"CN", "AC PRUEBA">>, <<"CN", "UANATACA CA2 2016">>, <<"OU", "TSP">>,
       <<"O", "ORG">>, <<"L", "Quito">>, <<"ST", "Pichincha">>, <<"C", "EC">>,
       <<"E", "info@ac.ec">> >>

\* issuers: up to MaxRdn different attributes of the pool, in any order
IssuerSet ==
    { s \in UNION {[1..n -> 1..Len(RdnPool)] : n \in 0..MaxRdn} :
        \A i, j \in 1..Len(s) : i # j => s[i] # s[j] }

issuerAttributes(s) == [i \in 1..Len(s) |-> RdnPool[s[i]]]

\* Array.prototype.find on the shortName: the first attribute of that name,
\* or <<>> when there is none
findAttr(attrs, name) ==
    IF \E i \in 1..Len(attrs) : attrs[i][1] = name
    THEN attrs[CHOOSE i \in 1..Len(attrs) :
                   /\ attrs[i][1] = name
                   /\ \A j \in 1..(i - 1) : attrs[j][1] # name]
    ELSE <<>>

RECURSIVE partesEnOrden(_, _)
\* for (const name of order) { attr = attrs.find(...); if (attr) parts.push(...) }
partesEnOrden(attrs, order) ==
    IF order = <<>> THEN <<>>
    ELSE (IF findAttr(attrs, Head(order)) = <<>> THEN <<>>
          ELSE <<findAttr(attrs, Head(order))>>)
         \o partesEnOrden(attrs, Tail(order))

\* XAdESSignatureService.formatIssuerName: the attributes named in its list,
\* in the order of the certificate, reversed
formatIssuerNameXAdES(attrs) ==
    LET formatted == SelectSeq(attrs, LAMBDA a : a[1] \in {"CN", "OU", "O", "L", "ST", "C"})
    IN  [i \in 1..Len(formatted) |-> formatted[Len(formatted) + 1 - i]]

\* SRIXmlSigner.formatIssuerName: the fixed text for the two UANATACA CA2
\* issuers, the generic order for the others
formatIssuerNameSRI(attrs) ==
    LET cnAttr == findAttr(attrs, "CN")
        cn == IF cnAttr = <<>> THEN "" ELSE cnAttr[2]
    IN  IF cn = "UANATACA CA2 2016"
        THEN << <<"CN", "UANATACA CA2 2016">>, <<"OU", "TSP-UANATACA">>,
                <<"O", "UANATACA S.A.">>,
                <<"L", "Barcelona (see current address at www.uanataca.com/address)">>,
                <<"C", "ES">> >>
        ELSE partesEnOrden(attrs, <<"CN", "OU", "O", "L", "C">>)

\* XMLSigner.formatIssuerName
formatIssuerNameXMLSigner(attrs) == partesEnOrden(attrs, <<"CN", "OU", "O", "C">>)

InitIssuer ==
    \E signer \in {"XAdESSignatureService", "SRIXmlSigner", "XMLSigner"}, s \in IssuerSet :
        cert = [pc |-> "issuer", signer |-> signer, attributes |-> issuerAttributes(s),
                issuerName |-> <<>>]

\* one call of formatIssuerName; the parts are written joined by ","
FormatIssuerName ==
    /\ cert.pc = "issuer"
    /\ cert' = [cert EXCEPT
                  !.pc = "issuerDone",
                  !.issuerName =
                      IF cert.signer = "XAdESSignatureService"
                      THEN formatIssuerNameXAdES(cert.attributes)
                      ELSE IF cert.signer = "SRIXmlSigner"
                      THEN formatIssuerNameSRI(cert.attributes)
                      ELSE formatIssuerNameXMLSigner(cert.attributes)]
    /\ UNCHANGED <<claveVars, connVars, procVars, sign, c14n>>

InitIssuerAll ==
    InitIssuer /\ sign = NoSign /\ c14n = NoC14n /\ ClaveIdle /\ ConnIdle /\ ProcIdle
NextIssuer == FormatIssuerName
SpecIssuer == InitIssuerAll /\ [][NextIssuer]_vars

OrdenFijo == <<"CN", "OU", "O", "L", "C">>
LugarEnOrden(name) == CHOOSE i \in 1..Len(OrdenFijo) : OrdenFijo[i] = name

\* C21: the issuer name a signer writes lists the attributes of the issuer in
\* the fixed order CN, OU, O, L, C, whatever their order in the certificate,
\* and holds no attribute outside that list.
C21_EmisorEnOrdenFijo ==
    cert.pc = "issuerDone" =>
        LET partes == cert.issuerName
        IN  /\ \A i \in 1..Len(partes) : \E k \in 1..Len(OrdenFijo) : OrdenFijo[k] = partes[i][1]
            /\ \A i, j \in 1..Len(partes) :
                  i < j => LugarEnOrden(partes[i][1]) < LugarEnOrden(partes[j][1])
            /\ \A k \in 1..Len(OrdenFijo) :
                  (\E i \in 1..Len(cert.attributes) : cert.attributes[i][1] = OrdenFijo[k])
                      => \E i \in 1..Len(partes) : partes[i][1] = OrdenFijo[k]

(***************************************************************************)
(* SRIC14N on documents whose elements declare namespaces at three levels  *)
(***************************************************************************)
NsPool == << <<xmlns, <<"u", "1">>>>,
             <<xmlns \o <<":", "d", "s">>, <<"u", "2">>>>,
             <<xmlns \o <<":", "d", "s">>, <<"u", "9">>>>,
             <<<<"i", "d">>, <<"1">>>> >>

\* the attribute lists an element can carry: attributes of the pool with
\* different names
NsAttrs ==
    { SubSeqAt(NsPool, K) : K \in
        { K \in SUBSET (1..Len(NsPool)) :
            /\ Cardinality(K) <= MaxAttrs
            /\ \A i, j \in K : i # j => NsPool[i][1] # NsPool[j][1] } }

InitC14nNs ==
    \E r \in NsAttrs, d \in NsAttrs, g \in NsAttrs :
        LET doc == Elem("factura", r,
                        << Elem("detalle", d, << Elem("ds:Signature", g, <<>>, <<"t">>) >>,
                                <<>>) >>,
                        <<>>)
        IN  c14n = [pc |-> "canonicalize", doc |-> doc, permutado |-> doc, out |-> <<>>,
                    outPermutado |-> <<>>, outEnveloped |-> <<>>]

InitC14nNsAll ==
    InitC14nNs /\ sign = NoSign /\ cert = NoCert /\ ClaveIdle /\ ConnIdle /\ ProcIdle
SpecC14nNs == InitC14nNsAll /\ [][NextC14n]_vars

RECURSIVE mergeNamespaces(_, _)
\* { ...inheritedNamespaces, ...localNamespaces }
mergeNamespaces(inherited, local) ==
    IF local = <<>> THEN inherited
    ELSE mergeNamespaces(putNamespace(inherited, Head(local)[1], Head(local)[2]), Tail(local))

RECURSIVE DeclaracionesNuevas(_, _)
RECURSIVE DeclaracionesNuevasEn(_, _)
\* the number of namespace declarations of the element and of its
\* descendants that are not in scope, same prefix and same URI, from an
\* ancestor
DeclaracionesNuevas(node, inherited) ==
    LET local == extractNamespaces(node.attrs)
    IN  Cardinality({i \in 1..Len(local) :
                        ~\E k \in 1..Len(inherited) : inherited[k] = local[i]})
          + DeclaracionesNuevasEn(node.kids, mergeNamespaces(inherited, local))

DeclaracionesNuevasEn(nodes, inherited) ==
    IF nodes = <<>> THEN 0
    ELSE DeclaracionesNuevas(Head(nodes), inherited)
           + DeclaracionesNuevasEn(Tail(nodes), inherited)

\* the number of namespace declarations written in a canonical text
DeclaracionesEscritas(out) ==
    Cardinality({i \in 1..(Len(out) - Len(xmlns)) :
                    /\ out[i] = " "
                    /\ SubSeq(out, i + 1, i + Len(xmlns)) = xmlns})

\* C22: canonicalize does not write on a descendant element a namespace
\* declaration, same prefix and same URI, that is already in scope from an
\* ancestor element: the declarations written are those of the document that
\* are not in scope where they stand.
C22_SinDeclaracionRedundante ==
    c14n.pc # "canonicalize" =>
        DeclaracionesEscritas(c14n.out) = DeclaracionesNuevas(c14n.doc, <<>>)

(***************************************************************************)
(* Claims on the order of the remote calls of one request                  *)
(***************************************************************************)
\* C23: in processInvoice, processNotaCredito and processRetencion an
\* authorization query is made only after a reception call of the same
\* request has answered RECIBIDA and validarComprobante has returned it;
\* after DEVUELTA or after a reception error none is made.
C23_AutorizacionSoloTrasRecibida ==
    [][ /\ remoteLog'.autorizacion > 0 => proc'.respuestaRecepcion = "RECIBIDA"
        /\ proc'.respuestaRecepcion # proc.respuestaRecepcion
              => /\ remoteLog.last = proc'.respuestaRecepcion
                 /\ remoteLog.recepcion >= 1
                 /\ outcome = Returned("validar", proc'.respuestaRecepcion, <<>>)
        /\ (InEspera' /\ ~InEspera) => remoteLog.last = "RECIBIDA"
        /\ (Finished("process")' /\ proc'.respuestaRecepcion # "RECIBIDA")
              => remoteLog'.autorizacion = 0 ]_vars

\* an authorization query was made after the second reception call of the
\* request answered RECIBIDA
C23_Witness ==
    /\ remoteLog.recepcion = 2
    /\ proc.respuestaRecepcion = "RECIBIDA"
    /\ remoteLog.autorizacion >= 1

\* C24: in autorizacionComprobanteConEspera an error raised by
\* autorizacionComprobante (not retryable, or retryable with its attempts used
\* up) is surfaced to the caller at once: the call ends raising that error and
\* no further authorization call follows.
C24_ErrorDeConsultaSeEleva ==
    [][ (Running("espera") /\ Top.pc = "await" /\ outcome.from = "autorizacion"
           /\ outcome.kind = "throw")
          => /\ Finished("espera")'
             /\ outcome' = Thrown("espera", outcome.error) ]_vars

(***************************************************************************)
(* The order of the steps of signXML: XAdESSignatureService, SRIXmlSigner  *)
(* and SRIXmlSignerV2.  `sign` holds the digests computed so far, the      *)
(* SignedInfo element as it stands and the SignedInfo the signature value  *)
(* was computed over.                                                      *)
(***************************************************************************)
NoOrden == [signer |-> "none", pc |-> "idle", algorithm |-> "SHA1",
            signedPropsId |-> <<>>, keyInfoId |-> <<>>, referenceId |-> <<>>,
            signedPropsDigest |-> <<>>, keyInfoDigest |-> <<>>,
            signedInfo |-> NoElem, signatureValue |-> <<>>]

\* the RSA signature of a SignedInfo, as an opaque value of the element signed
signData(signedInfo) == <<"rsa", signedInfo>>

\* element.setAttribute(name, value)
setAttribute(e, name, value) ==
    IF \E i \in 1..Len(e.attrs) : e.attrs[i][1] = name
    THEN [e EXCEPT !.attrs = [i \in 1..Len(e.attrs) |->
                                 IF e.attrs[i][1] = name THEN <<name, value>> ELSE e.attrs[i]]]
    ELSE [e EXCEPT !.attrs = Append(e.attrs, <<name, value>>)]

\* parent.insertBefore(node, parent.kids[at]); without a reference child the
\* node is appended
insertBefore(parent, node, at) ==
    IF at = 0 THEN [parent EXCEPT !.kids = Append(parent.kids, node)]
    ELSE [parent EXCEPT !.kids = SubSeq(parent.kids, 1, at - 1) \o <<node>>
                                   \o SubSeq(parent.kids, at, Len(parent.kids))]

\* the indices of the ds:Reference children of a SignedInfo
ReferenceIndices(signedInfo) ==
    {i \in 1..Len(signedInfo.kids) : signedInfo.kids[i].tag = "ds:Reference"}

\* the SignedInfo xml-crypto writes in computeSignature: signXML adds no
\* reference before the call; what the library writes then is its own matter
SignedInfoDeLibreria ==
    { Elem("ds:SignedInfo", <<>>,
           << Elem("ds:CanonicalizationMethod",
                   << <<"Algorithm", CANONICALIZATION_METHOD>> >>, <<>>, <<>>),
              Elem("ds:SignatureMethod",
                   << <<"Algorithm", SIGNATURE_METHOD_RSA_SHA1>> >>, <<>>, <<>>) >> \o refs,
           <<>>) :
        refs \in { <<>>,
                   << Elem("ds:Reference", << <<"URI", <<>> >> >>,
                           << Elem("ds:DigestValue", <<>>, <<>>, Digest("documento", <<>>)) >>,
                           <<>>) >> } }

\* the ds:Reference of addSignedPropertiesReference / addKeyInfoReference
referenceV2(attrs, digest) ==
    Elem("ds:Reference", attrs,
         << Text(<<"\n", " ">>),
            Elem("ds:DigestMethod", << <<"Algorithm", DIGEST_METHOD_SHA1>> >>, <<>>, <<>>),
            Text(<<"\n", " ">>),
            Elem("ds:DigestValue", <<>>, <<>>, digest),
            Text(<<"\n", " ">>) >>,
         <<>>)

InitOrden ==
    \E signer \in {"XAdESSignatureService", "SRIXmlSigner", "SRIXmlSignerV2"},
       algorithm \in {"SHA1", "SHA256"}, sp \in IdSuffixes, ki \in IdSuffixes,
       ref \in IdSuffixes :
        /\ signer # "XAdESSignatureService" => algorithm = "SHA1"
        /\ sign = [NoOrden EXCEPT
                     !.signer = signer,
                     !.algorithm = algorithm,
                     !.pc = IF signer = "SRIXmlSignerV2" THEN "computeSignature"
                            ELSE "signedProps",
                     !.signedPropsId = <<"SignedProperties">> \o sp,
                     !.keyInfoId = <<"Certificate">> \o ki,
                     !.referenceId = <<"Reference-">> \o ref]

\* XAdESSignatureService, SRIXmlSigner: SignedProperties is built and digested
OrdenSignedPropsDigest ==
    /\ sign.pc = "signedProps"
    /\ sign' = [sign EXCEPT !.pc = "keyInfo",
                            !.signedPropsDigest = Digest("SignedProperties", sign.signedPropsId)]
    /\ UNCHANGED <<claveVars, connVars, procVars, c14n, cert>>

\* XAdESSignatureService, SRIXmlSigner: KeyInfo is built and digested
OrdenKeyInfoDigest ==
    /\ sign.pc = "keyInfo"
    /\ sign' = [sign EXCEPT !.pc = "signedInfo",
                            !.keyInfoDigest = Digest("KeyInfo", sign.keyInfoId)]
    /\ UNCHANGED <<claveVars, connVars, procVars, c14n, cert>>

\* XAdESSignatureService, SRIXmlSigner: createSignedInfo with the two digests
OrdenSignedInfo ==
    /\ sign.pc = "signedInfo"
    /\ \E u \in IdSuffixFijo :
          sign' = [sign EXCEPT
                     !.pc = "signatureValue",
                     !.signedInfo =
                         IF sign.signer = "SRIXmlSigner"
                         THEN createSignedInfoSRI(<<"Signature-SignedInfo">> \o u,
                                                  <<"SignedPropertiesID">> \o u,
                                                  sign.signedPropsId, sign.signedPropsDigest,
                                                  sign.keyInfoId, sign.keyInfoDigest,
                                                  sign.referenceId, Digest("documento", <<>>))
                         ELSE createSignedInfo(sign.referenceId, sign.signedPropsId,
                                               sign.signedPropsDigest, sign.keyInfoId,
                                               sign.keyInfoDigest, Digest("documento", <<>>),
                                               sign.algorithm, u[2])]
    /\ UNCHANGED <<claveVars, connVars, procVars, c14n, cert>>

\* XAdESSignatureService.calculateSignatureValue, SRIXmlSigner.signData
OrdenSignatureValue ==
    /\ sign.pc = "signatureValue"
    /\ sign.signer \in {"XAdESSignatureService", "SRIXmlSigner"}
    /\ sign.signatureValue = <<>>
    /\ sign' = [sign EXCEPT !.pc = "insertar", !.signatureValue = signData(sign.signedInfo)]
    /\ UNCHANGED <<claveVars, connVars, procVars, c14n, cert>>

\* XAdESSignatureService, SRIXmlSigner: the signature element is completed,
\* appended to the root and the document serialized
OrdenInsertar ==
    /\ sign.pc = "insertar"
    /\ sign' = [sign EXCEPT !.pc = "done"]
    /\ UNCHANGED <<claveVars, connVars, procVars, c14n, cert>>

\* SRIXmlSignerV2: SignedProperties, KeyInfo and the Object are written as
\* texts, then sig.computeSignature(xmlContent, ...) of xml-crypto assembles
\* SignedInfo and signs it, or throws
V2ComputeSignature ==
    /\ sign.pc = "computeSignature"
    /\ \/ \E si \in SignedInfoDeLibreria :
             sign' = [sign EXCEPT !.pc = "setIds", !.signedInfo = si,
                                  !.signatureValue = signData(si)]
       \/ sign' = [sign EXCEPT !.pc = "error"]
    /\ UNCHANGED <<claveVars, connVars, procVars, c14n, cert>>

\* SRIXmlSignerV2: signedInfos[0].setAttribute('Id', signedInfoId)
V2SetIds ==
    /\ sign.pc = "setIds"
    /\ \E u \in IdSuffixFijo :
          sign' = [sign EXCEPT
                     !.pc = "addSignedProperties",
                     !.signedInfo = setAttribute(@, "Id", <<"Signature-SignedInfo">> \o u)]
    /\ UNCHANGED <<claveVars, connVars, procVars, c14n, cert>>

\* SRIXmlSignerV2.addSignedPropertiesReference
V2AddSignedPropertiesReference ==
    /\ sign.pc = "addSignedProperties"
    /\ \E u \in IdSuffixFijo :
          LET digest == Digest("SignedProperties", sign.signedPropsId)
              refs == ReferenceIndices(sign.signedInfo)
              firstRef == IF refs = {} THEN 0 ELSE CHOOSE i \in refs : \A j \in refs : i <= j
              ref == referenceV2(<< <<"xmlns:ds", <<"http://www.w3.org/2000/09/xmldsig#">> >>,
                                    <<"Id", <<"SignedPropertiesID">> \o u>>,
                                    <<"Type", TYPE_SIGNED_PROPERTIES>>,
                                    <<"URI", <<"#">> \o sign.signedPropsId>> >>, digest)
          IN  sign' = [sign EXCEPT !.pc = "addKeyInfo",
                                   !.signedPropsDigest = digest,
                                   !.signedInfo = insertBefore(@, ref, firstRef)]
    /\ UNCHANGED <<claveVars, connVars, procVars, c14n, cert>>

\* SRIXmlSignerV2.addKeyInfoReference
V2AddKeyInfoReference ==
    /\ sign.pc = "addKeyInfo"
    /\ LET digest == Digest("KeyInfo", sign.keyInfoId)
           refs == ReferenceIndices(sign.signedInfo)
           ref == referenceV2(<< <<"xmlns:ds", <<"http://www.w3.org/2000/09/xmldsig#">> >>,
                                 <<"URI", <<"#">> \o sign.keyInfoId>> >>, digest)
       IN  sign' = [sign EXCEPT
                      !.pc = "updateDocument",
                      !.keyInfoDigest = digest,
                      !.signedInfo =
                          IF refs # {}
                          THEN insertBefore(@, ref, CHOOSE i \in refs : \A j \in refs : i >= j)
                          ELSE @]
    /\ UNCHANGED <<claveVars, connVars, procVars, c14n, cert>>

\* SRIXmlSignerV2.updateDocumentReference, then the document is serialized
V2UpdateDocumentReference ==
    /\ sign.pc = "updateDocument"
    /\ LET si == sign.signedInfo
           docs == {i \in ReferenceIndices(si) :
                      Attr(si.kids[i], "URI") \in {<<"#comprobante">>, <<>>}}
           first == CHOOSE i \in docs : \A j \in docs : i <= j
       IN  sign' = [sign EXCEPT
                      !.pc = "done",
                      !.signedInfo =
                          IF docs = {} THEN @
                          ELSE [@ EXCEPT !.kids[first] =
                                            setAttribute(@, "Id", sign.referenceId)]]
    /\ UNCHANGED <<claveVars, connVars, procVars, c14n, cert>>

InitOrdenAll ==
    InitOrden /\ c14n = NoC14n /\ cert = NoCert /\ ClaveIdle /\ ConnIdle /\ ProcIdle
NextOrden ==
    \/ OrdenSignedPropsDigest \/ OrdenKeyInfoDigest \/ OrdenSignedInfo
    \/ OrdenSignatureValue \/ OrdenInsertar
    \/ V2ComputeSignature \/ V2SetIds \/ V2AddSignedPropertiesReference
    \/ V2AddKeyInfoReference \/ V2UpdateDocumentReference
SpecOrden == InitOrdenAll /\ [][NextOrden]_vars

\* C25: in every signXML run the SignedProperties digest and the KeyInfo digest
\* are computed before SignedInfo is assembled, the signature value is computed
\* after SignedInfo is assembled, and SignedInfo is not modified after the
\* signature value has been computed.
C25_OrdenDeLaFirma ==
    [][ /\ (sign.signedInfo = NoElem /\ sign'.signedInfo # NoElem)
              => sign.signedPropsDigest # <<>> /\ sign.keyInfoDigest # <<>>
        /\ (sign.signatureValue = <<>> /\ sign'.signatureValue # <<>>)
              => sign.signedInfo # NoElem
        /\ sign.signatureValue # <<>>
              => /\ sign'.signedInfo = sign.signedInfo
                 /\ sign'.signatureValue = signData(sign'.signedInfo) ]_vars

CodigosRecuperables == {26, 50, 65, 70}
CodigosNoRecuperables == {2, 10, 37, 43, 45}

\* what else an error with an SRI code can carry: nothing, the HTTP status
\* 500 of the response, or a message that names a network fault
VariantesDeError == {"", "http500", "network"}

NombreDeCodigo(c, v) == "sri" \o ToString(c) \o v

SriErrors ==
    { Err(NombreDeCodigo(c, v),
          IF v = "network" THEN {"network", "error"} ELSE {"error", "del", "sri"},
          IF v = "http500" THEN 500 ELSE 0,
          NatToStr(c)) :
        c \in CodigosRecuperables \cup CodigosNoRecuperables, v \in VariantesDeError }

\* the reception call failing with an error that carries an SRI code
RecepcionCallSri == RecepcionCallCon(SriErrors)

MaxRetriesCodigos == 3

InitCodigos ==
    /\ ClaveIdle /\ ProcIdle /\ SignIdle
    /\ \E n \in 1..MaxRetriesCodigos :
          config = [maxRetries |-> n, recepcionClient |-> TRUE, autorizacionClient |-> TRUE]
    /\ stack = <<Frame("validar", "init")>>
    /\ elapsed = 0
    /\ espera = NoEspera
    /\ attempt = 0
    /\ delays = <<>>
    /\ remoteLog = NoRemote
    /\ sleepLog = NoSleep
    /\ outcome = NoOutcome

NextCodigos == InitializeClients \/ RecepcionCallSri \/ RetrySleep
SpecCodigos == InitCodigos /\ [][NextCodigos]_vars

NombresDe(codigos, variantes) ==
    {NombreDeCodigo(c, v) : c \in codigos, v \in variantes}

\* after the remote call that just failed the loop goes on to another attempt
\* when one is left, and gives up with the 'Fallo al validar' error otherwise
SeReintenta ==
    IF attempt < config.maxRetries
    THEN stack' # <<>> /\ stack'[1] = Frame("validar", "sleep")
    ELSE stack' = <<>> /\ outcome' = Thrown("validar", ErrFallo)

\* the call ends raising the error of the remote call that just failed
TerminaConElError ==
    /\ stack' = <<>>
    /\ outcome'.kind = "throw"
    /\ outcome'.error.name = remoteLog'.last

C28_RespuestaConRegistro ==
    /\ (outcome.from = "espera" /\ outcome.kind = "return")
          => Len(outcome.autorizaciones) >= 1
    /\ (Finished("process") /\ proc.respuestaRecepcion = "RECIBIDA"
          /\ proc.result.estado # "ERROR")
          => /\ Len(proc.respuestaAutorizacion) >= 1
             /\ proc.result.estado = proc.respuestaAutorizacion[1].estado
             /\ proc.result.numeroAutorizacion
                    = proc.respuestaAutorizacion[1].numeroAutorizacion

\* a credit note whose result was read from the first record of an answer
\* that came after the wait had slept
C28_Witness ==
    /\ proc.tipo = "notaCredito"
    /\ Finished("process")
    /\ espera.sleeps >= 1
    /\ Len(proc.respuestaAutorizacion) >= 1
    /\ proc.result.estado = "NO AUTORIZADO"

(***************************************************************************)
(* InvoiceXMLBuilder.generateClaveAcceso and its check digit, next to      *)
(* ClaveAccesoService                                                      *)
(***************************************************************************)
\* the factors applied from the leftmost digit
factoresDesdeLaIzquierda == <<7, 6, 5, 4, 3, 2>>

factores == <<2, 3, 4, 5, 6, 7>>

RECURSIVE sumaDeDerechaAIzquierda(_, _, _)
\* for (let i = numero.length - 1; i >= 0; i--) suma += digit * factores[factorIndex]
sumaDeDerechaAIzquierda(numero, i, factorIndex) ==
    IF i = 0 THEN 0
    ELSE DigitVal(numero[i]) * factores[factorIndex + 1]
           + sumaDeDerechaAIzquierda(numero, i - 1, (factorIndex + 1) % Len(factores))

\* InvoiceXMLBuilder.calcularModulo11(numero)
calcularModulo11Builder(numero) ==
    LET residuo == sumaDeDerechaAIzquierda(numero, Len(numero), 0) % 11
        digitoVerificador == 11 - residuo
    IN  IF digitoVerificador = 11 THEN <<"0">>
        ELSE IF digitoVerificador = 10 THEN <<"1">>
        ELSE NatToStr(digitoVerificador)

\* InvoiceXMLBuilder.generateClaveAcceso(params); k is the draw of
\* generateCodigoNumerico, used when params holds no codigoNumerico
generateClaveAcceso(p, k) ==
    LET codigoNumerico == IF p.codigoNumerico # <<>> THEN p.codigoNumerico
                          ELSE generateCodigoNumerico(k)
        clave48 == p.fechaEmision \o p.tipoComprobante \o p.ruc \o p.ambiente \o p.serie
                     \o p.numeroComprobante \o codigoNumerico \o p.tipoEmision
    IN  clave48 \o calcularModulo11Builder(clave48)

\* the parameters whose fields are the parts of a 48-digit text, with or
\* without its codigoNumerico
BuilderParams(c, conCodigo) ==
    [fechaEmision |-> Substring(c, 0, 8), tipoComprobante |-> Substring(c, 8, 10),
     ruc |-> Substring(c, 10, 23), ambiente |-> Substring(c, 23, 24),
     serie |-> Substring(c, 24, 30), numeroComprobante |-> Substring(c, 30, 39),
     codigoNumerico |-> IF conCodigo THEN Substring(c, 39, 47) ELSE <<>>,
     tipoEmision |-> Substring(c, 47, 48)]

InitBuilder ==
    /\ params = CHOOSE p \in ParamSet : TRUE
    /\ genResult = GenNone
    /\ mutada = <<>>
    /\ parsed = NoParsed
    /\ \E c \in Claves48, conCodigo \in BOOLEAN :
          modulo = [pc |-> "generate", params |-> BuilderParams(c, conCodigo), key |-> <<>>,
                    valida |-> FALSE, digito |-> <<>>]
    /\ ConnIdle /\ ProcIdle /\ SignIdle

\* InvoiceXMLBuilder.generateClaveAcceso(params)
GenerateClaveAcceso ==
    /\ modulo.pc = "generate"
    /\ \E k \in 0..(RandomSteps - 1) :
          /\ modulo.params.codigoNumerico # <<>> => k = 0
          /\ modulo' = [modulo EXCEPT !.pc = "validate",
                                      !.key = generateClaveAcceso(modulo.params, k)]
    /\ UNCHANGED <<params, genResult, mutada, parsed>>
    /\ UNCHANGED <<connVars, procVars, signVars>>

\* ClaveAccesoService.validate(key) and ClaveAccesoService.calcularModulo11 of
\* its first 48 digits
ValidarClaveDelBuilder ==
    /\ modulo.pc = "validate"
    /\ modulo' = [modulo EXCEPT !.pc = "done",
                                !.valida = validate(modulo.key),
                                !.digito = calcularModulo11(Substring(modulo.key, 0, 48))]
    /\ UNCHANGED <<params, genResult, mutada, parsed>>
    /\ UNCHANGED <<connVars, procVars, signVars>>

NextBuilder == GenerateClaveAcceso \/ ValidarClaveDelBuilder
SpecBuilder == InitBuilder /\ [][NextBuilder]_vars

\* C29: the two check-digit routines agree: for every 48-digit text
\* InvoiceXMLBuilder.calcularModulo11 (factors 2..7 from the rightmost digit)
\* returns the digit ClaveAccesoService.calcularModulo11 (weights 7..2 from the
\* leftmost digit) returns, so that a key built by generateClaveAcceso passes
\* ClaveAccesoService.validate.
C29_RutinasDeModulo11Coinciden ==
    modulo.pc = "done" =>
        /\ Len(modulo.key) = 49
        /\ calcularModulo11Builder(Substring(modulo.key, 0, 48)) = modulo.digito
        /\ Substring(modulo.key, 48, 49) = modulo.digito
        /\ modulo.valida

\* a key built with a drawn codigoNumerico whose weighted sum leaves the
\* remainder 1, the case both routines answer with the digit 1
C29_Witness ==
    /\ modulo.pc = "done"
    /\ modulo.params.codigoNumerico = <<>>
    /\ residuoModulo11(Substring(modulo.key, 0, 48)) = 1
    /\ modulo.digito = <<"1">>
    /\ modulo.valida

(***************************************************************************)
(* CertificateLoader: setCertificatePath and loadCertificate in any order. *)
(* The file system is outside the loader: every load finds at the          *)
(* configured path whatever file is there at that moment.                  *)
(***************************************************************************)
MaxLlamadas == 5

RutasDeCertificado == {<<>>, <<"a.p12">>, <<"b.p12">>}
ClavesDeCertificado == {<<>>, <<"clave">>}

\* what can be found at a path: no file, bytes that are no PKCS#12, a
\* container without key bag, and containers whose certificate is within, past
\* or before its validity
ArchivosP12 == {"ausente", "ilegible", "sinClave", "vigente", "expirado", "noVigenteAun"}

\* certificate.serialNumber of the certificate in a container
SerialNumbers == {"01", "02"}

InfoNula == <<>>

\* the try block of loadCertificate: whether it throws, and this.certificateInfo
\* after it.  The empty path resolves to the working directory, which
\* readFileSync does not read; every container here opens with "clave" only
loadCertificate(loader, archivo, serialNumber) ==
    IF \/ loader.certificatePath = <<>>
       \/ archivo \in {"ausente", "ilegible", "sinClave"}
       \/ loader.certificatePassword # <<"clave">>
    THEN [raises |-> TRUE, certificateInfo |-> loader.certificateInfo]
    ELSE LET isValid == archivo = "vigente"
         IN  [raises |-> ~isValid,
              certificateInfo |-> [origen |-> loader.certificatePath,
                                  serialNumber |-> serialNumber, isValid |-> isValid]]

\* getCertificateInfo()
getCertificateInfo(loader) == loader.certificateInfo

\* getPrivateKeyPEM(): whether it throws 'Certificado no cargado'
getPrivateKeyPEMRaises(loader) == loader.certificateInfo = InfoNula

\* new CertificateLoader(): path and password as the environment has them
InitLoader ==
    \E ruta \in RutasDeCertificado, clave \in ClavesDeCertificado :
        cert = [pc |-> "loader", certificatePath |-> ruta, certificatePassword |-> clave,
                certificateInfo |-> InfoNula, ultimo |-> "none", llamadas |-> 0]

\* setCertificatePath(path, password)
SetCertificatePath ==
    /\ cert.pc = "loader"
    /\ cert.llamadas < MaxLlamadas
    /\ \E ruta \in RutasDeCertificado, clave \in ClavesDeCertificado :
          cert' = [cert EXCEPT !.certificatePath = ruta, !.certificatePassword = clave,
                               !.certificateInfo = InfoNula, !.ultimo = "none",
                               !.llamadas = @ + 1]
    /\ UNCHANGED <<claveVars, connVars, procVars, sign, c14n>>

\* loadCertificate()
LoadCertificate ==
    /\ cert.pc = "loader"
    /\ cert.llamadas < MaxLlamadas
    /\ \E archivo \in ArchivosP12, serialNumber \in SerialNumbers :
          LET r == loadCertificate(cert, archivo, serialNumber)
          IN  cert' = [cert EXCEPT !.certificateInfo = r.certificateInfo,
                                   !.ultimo = IF r.raises THEN "raised" ELSE "ok",
                                   !.llamadas = @ + 1]
    /\ UNCHANGED <<claveVars, connVars, procVars, sign, c14n>>

InitLoaderAll ==
    InitLoader /\ sign = NoSign /\ c14n = NoC14n /\ ClaveIdle /\ ConnIdle /\ ProcIdle
NextLoader == SetCertificatePath \/ LoadCertificate
SpecLoader == InitLoaderAll /\ [][NextLoader]_vars

\* C30: after any sequence of setCertificatePath and loadCertificate calls the
\* loader holds certificate material (getCertificateInfo is not null and
\* getPrivateKeyPEM does not raise) only if the latest loadCertificate since
\* the latest setCertificatePath succeeded; a loadCertificate that raises
\* leaves the loader with no material.
C30_MaterialSoloTrasCargaExitosa ==
    /\ (getCertificateInfo(cert) # InfoNula /\ ~getPrivateKeyPEMRaises(cert))
          => cert.ultimo = "ok"
    /\ cert.ultimo = "raised"
          => getCertificateInfo(cert) = InfoNula /\ getPrivateKeyPEMRaises(cert)

====
